---- MODULE Spec2Model ----
(***************************************************************************)
(* A model of longform-ai's chapter generation engine: the session         *)
(* controller (BookSession), the per-chapter pipeline it drives, the graph *)
(* writer/editor/continuity nodes, and the refusal classifier they share.  *)
(*                                                                         *)
(* Texts are modelled as sequences of paragraphs.  A paragraph records     *)
(* what the classifier's regular expressions see of it: the refusal        *)
(* patterns it matches, how it begins, its words and its characters.       *)
(***************************************************************************)
EXTENDS Integers, Sequences, FiniteSets, TLC

RECURSIVE SumWords(_)
RECURSIVE Offset(_, _)
RECURSIVE DropFirst(_)
RECURSIVE FirstStory(_, _)
RECURSIVE TrimLeft(_)
RECURSIVE TrimRight(_)
RECURSIVE KeepParas(_)
RECURSIVE PreambleEnd(_, _, _)

(***************************************************************************)
(* Program constants                                                       *)
(***************************************************************************)
\* detectRefusal looks at the first 500 characters only
HeadLen == 500
\* detectRefusal and stripRefusalContent need two pattern matches
MinMatches == 2
\* writeChapter / writerNode: retries after the first refused attempt
maxRefusalRetries == 3
\* best salvaged text is used only from 100 words on
MinSalvageWords == 100
\* expand loop: below 50 words the chapter is generated afresh
FreshBelow == 50
\* expand loop: attempts per invocation
maxAttempts == 3
\* stripExpandPreamble examines the first five lines
PreambleLines == 5
\* tolerance 0.15 as a percentage
TolerancePct == 15
\* the editor is told that a chapter needs an overall score of 7 to pass
PassScore == 7

(***************************************************************************)
(* Bounds of the model                                                     *)
(***************************************************************************)
\* characters per word of the texts the modelled LLM returns
CharsPerWord == 6

(***************************************************************************)
(* Paragraphs and texts                                                    *)
(***************************************************************************)
\* REFUSAL_PATTERNS, by a representative of each shape.  "sorry" is
\* anchored (/^I'?m sorry\b/): on a whole text it can only match at the
\* very start.
AnchoredPats == {"sorry"}
FreePats == {"cantFull", "oneResponse", "ifYoudLike"}

Leads == {"plain", "numbered", "bullet", "offer", "header", "rule", "expandMeta"}

\* gap: the number of newline characters between the paragraph and the one
\* before it (split(/\n\n+/) takes any run of two or more as one separator)
Para(pats, lead, optWords, w) ==
    [pats |-> pats, lead |-> lead, optWords |-> optWords, w |-> w,
     c |-> IF w = 0 THEN 1 ELSE w * CharsPerWord, gap |-> 2]
Spaced(p, g) == [p EXCEPT !.gap = g]

Prose(w) == Para({}, "plain", FALSE, w)
\* "I'm sorry, but I can't produce a full chapter in one response."
RefusalPara == Para({"sorry", "cantFull", "oneResponse"}, "plain", FALSE, 12)
\* "If you'd like, I can write a shorter version, in one response."
OfferPara == Para({"ifYoudLike", "oneResponse"}, "offer", TRUE, 12)
\* a prose paragraph that cannot produce a full chapter in one response
LateRefusalPara == Para({"cantFull", "oneResponse"}, "plain", FALSE, 12)
\* "I'm sorry," she said: one pattern only
ApologyPara == Para({"sorry"}, "plain", FALSE, 20)
\* "1. A shorter version"
OptionPara == Para({}, "numbered", TRUE, 4)
\* "Below is the expanded chapter."
ExpandMetaPara == Para({}, "expandMeta", FALSE, 5)
\* a whitespace-only paragraph
BlankPara == Para({}, "plain", FALSE, 0)

EmptyText == << >>

\* countWords: text.split(/\s+/).filter(w => w.length > 0).length
SumWords(t) == IF t = << >> THEN 0 ELSE Head(t).w + SumWords(Tail(t))
countWords(t) == SumWords(t)

\* String.prototype.trim on a text: whitespace-only paragraphs at either end go
TrimLeft(t) ==
    IF t = << >> THEN << >>
    ELSE IF Head(t).w = 0 THEN TrimLeft(Tail(t)) ELSE t
TrimRight(t) ==
    IF t = << >> THEN << >>
    ELSE IF t[Len(t)].w = 0 THEN TrimRight(SubSeq(t, 1, Len(t) - 1)) ELSE t
\* nothing precedes the first paragraph of a text
FirstGap(t) == IF t = << >> THEN t ELSE <<Spaced(Head(t), 2)>> \o Tail(t)
Trim(t) == FirstGap(TrimRight(TrimLeft(t)))
\* paragraphs.join('\n\n')
joinParas(t) == [i \in 1..Len(t) |-> Spaced(t[i], 2)]

\* character offset at which paragraph i of t begins
Offset(t, i) == IF i <= 1 THEN 0 ELSE Offset(t, i - 1) + t[i - 1].c + t[i].gap

\* the patterns that match normalized.slice(0, 500)
HeadPats(t) ==
    UNION { IF i = 1 THEN t[i].pats ELSE t[i].pats \ AnchoredPats :
            i \in { j \in 1..Len(t) : Offset(t, j) < HeadLen } }

\* the paragraph tests of stripRefusalPreamble that skip a paragraph
IsArtifact(p) == p.lead \in {"numbered", "offer", "header", "rule"}

\* index of the first paragraph from i on that looks like prose, 0 if none
FirstStory(t, i) ==
    IF i > Len(t) THEN 0
    ELSE IF t[i].w = 0 \/ IsArtifact(t[i]) \/ t[i].pats # {}
         THEN FirstStory(t, i + 1)
         ELSE i

stripRefusalPreamble(t) ==
    LET s == FirstStory(t, 1)
    IN  IF s > 1 THEN Trim(joinParas(SubSeq(t, s, Len(t)))) ELSE t

\* detectRefusal with a threshold of one pattern
detectRefusalOnAnyMatch(text) ==
    LET trimmed == Trim(text)
    IN  IF trimmed = << >> THEN [isRefusal |-> FALSE, cleanedText |-> trimmed]
        ELSE IF Cardinality(HeadPats(trimmed)) < 1
             THEN [isRefusal |-> FALSE, cleanedText |-> trimmed]
             ELSE [isRefusal |-> TRUE, cleanedText |-> stripRefusalPreamble(trimmed)]

detectRefusal(text) ==
    LET trimmed == Trim(text)
    IN  IF trimmed = << >> THEN [isRefusal |-> FALSE, cleanedText |-> trimmed]
        ELSE IF Cardinality(HeadPats(trimmed)) < MinMatches
             THEN [isRefusal |-> FALSE, cleanedText |-> trimmed]
             ELSE [isRefusal |-> TRUE, cleanedText |-> stripRefusalPreamble(trimmed)]

\* stripRefusalContent: every paragraph is tested on its own
IsOptionList(p) == p.lead \in {"numbered", "bullet"} /\ p.optWords
KeepParas(t) ==
    IF t = << >> THEN << >>
    ELSE IF Head(t).w # 0 /\ (Cardinality(Head(t).pats) >= MinMatches \/ IsOptionList(Head(t)))
         THEN KeepParas(Tail(t))
         ELSE <<Head(t)>> \o KeepParas(Tail(t))
\* stripRefusalContent that stops at the first paragraph it drops
DropFirst(t) ==
    IF t = << >> THEN << >>
    ELSE IF Head(t).w # 0 /\ (Cardinality(Head(t).pats) >= MinMatches \/ IsOptionList(Head(t)))
         THEN Tail(t)
         ELSE <<Head(t)>> \o DropFirst(Tail(t))
stripRefusalContentOnce(t) ==
    IF Trim(t) = << >> THEN t ELSE Trim(joinParas(DropFirst(t)))
stripRefusalContent(t) ==
    IF Trim(t) = << >> THEN t ELSE Trim(joinParas(KeepParas(t)))

\* stripExpandPreamble: paragraph k starts on line 2k-2 (0-based) when the
\* paragraphs are single lines separated by one empty line
PreambleEnd(t, k, line) ==
    IF k > Len(t) \/ line >= PreambleLines THEN k
    ELSE IF t[k].w = 0 \/ t[k].lead \in {"expandMeta", "rule"}
         THEN PreambleEnd(t, k + 1, line + 2)
         ELSE k
stripExpandPreamble(t) ==
    LET k == PreambleEnd(t, 1, 0)
    IN  IF k > 1 THEN Trim(SubSeq(t, k, Len(t))) ELSE t

\* Math.floor(targetWords * (1 - tolerance))
minAcceptableOf(targetWords) == (targetWords * (100 - TolerancePct)) \div 100
\* wordConfig.minWords ?? 500
minWords == 500
\* BookSession.checkWordTarget
checkWordTarget(wordCount, targetWords) ==
    LET minAcceptable == IF minAcceptableOf(targetWords) >= minWords
                         THEN minAcceptableOf(targetWords) ELSE minWords
    IN  wordCount >= minAcceptable

(***************************************************************************)
(* Bounds of the session model                                             *)
(***************************************************************************)
\* ChapterPlan objects that can exist at once
MaxObj == 3
\* chapters an outline returned by the outline model has at most
MaxOutline == 2
\* entries of one list argument of updateOutline
MaxEdits == 1
\* length of a reorderChapters list
MaxReorder == 2
\* operations in flight at once (calls suspended on a model call)
MaxInFlight == 2
\* operations started in one behaviour by a caller that awaits each call
MaxOps == 4
\* operations started in one behaviour by a caller that does not
MaxOpsConcurrent == 3
\* operations in one behaviour of a caller that only edits the outline
MaxOutlineOps == 3
\* operations in one behaviour of a caller that generates one chapter
MaxChapterOps == 2
\* config.maxEditCycles is chosen from 0..MaxEditCycles
MaxEditCycles == 2
\* operations in one behaviour of a caller whose model always answers
MaxLiveOps == 2
MaxRunOps == 3
\* context items in one call of buildContext, and the largest budget
MaxItems == 3
MaxBudget == 4
MaxParas == 3
\* operations in one behaviour of a caller that saves and restores
MaxPersistOps == 4
\* the rejections of a human reviewer in one run of the graph
MaxReviews == 2
\* writer, expand and edit calls counted in one invocation
MaxModelCalls == 12

ObjIds == 1..MaxObj
Slots == 1..MaxInFlight
\* chapter numbers a caller may name (0 names no chapter)
Numbers == 0..MaxObj
\* targetWords of a chapter plan
Targets == {1000, 2000}
MaxTargetWords == 4000

VARIABLES
    outline,                \* state.outline: [present, chapters (ChapterPlan references)]
    heap,                   \* the ChapterPlan objects: reference -> [number, targetWords]
    outlineApproved,        \* state.outlineApproved
    chapters,               \* state.chapters: Map number -> ChapterContent
    chapterStatuses,        \* state.chapterStatuses: Map number -> status
    rollingSummary,         \* state.rollingSummary
    previousChapterEnding,  \* state.previousChapterEnding
    costs,                  \* state.costs: number of entries of the ledger
    phase,                  \* state.phase
    maxEditCycles,          \* sessionConfig.maxEditCycles
    calls,                  \* the async calls in flight, one record per slot
    ops,                    \* operations called so far
    last,                   \* the operation the last step rejected, the events it emitted
    env,                    \* the environment: the model's answers, the caller's calls
    storage,                \* the SessionStorage objects: this.storage and the caller's
    graph                   \* the BookState of a run of the generation graph

sessionVars == <<outline, heap, outlineApproved, chapters, chapterStatuses,
                 rollingSummary, previousChapterEnding, costs, phase>>
vars == <<outline, heap, outlineApproved, chapters, chapterStatuses,
          rollingSummary, previousChapterEnding, costs, phase,
          maxEditCycles, calls, ops, last, env, storage, graph>>

NoOutline == [present |-> FALSE, chapters |-> << >>]
NullPlan == [number |-> 0, targetWords |-> 0]
\* an empty slot; the fields are the locals of the async methods
Idle == [op |-> "idle", pc |-> "none", target |-> 0, plan |-> 0, outlineLen |-> 0,
         attempt |-> 0, bestText |-> << >>, bestWordCount |-> 0,
         draft |-> << >>, wordCount |-> 0, attempts |-> 0, minAcceptable |-> 0,
         hasPlan |-> FALSE, after |-> "none",
         editCount |-> 0, approved |-> FALSE, edits |-> 0, summary |-> "none",
         newSummary |-> << >>,
         inAll |-> FALSE, allChapters |-> << >>, allIdx |-> 0,
         writerCalls |-> 0, expandCalls |-> 0, hist |-> << >>, given |-> << >>,
         returned |-> << >>, loopDone |-> FALSE, answer |-> << >>, rejects |-> 0,
         fresh |-> FALSE, track |-> << >>, overall |-> 0]
\* an EditResult (schemas/content.ts): the model's verdict and its overall score
EditResult(approved, overall) == [approved |-> approved, overall |-> overall]
\* what a step tells the caller: the operation it rejected, and the progress
\* events it emitted (chapter_failed and word_count_warning are kept)
NoCall == [op |-> "none", outcome |-> "none", events |-> << >>]
Emitted(events) == [NoCall EXCEPT !.events = events]
ChapterFailed(n) == [type |-> "chapter_failed", chapter |-> n]
WordCountWarning(n) == [type |-> "word_count_warning", chapter |-> n]

Has(map, k) == k \in DOMAIN map
Put(map, k, v) == [x \in (DOMAIN map) \cup {k} |-> IF x = k THEN v ELSE map[x]]
EmptyMap == [x \in {} |-> 0]
\* this.storage = new MemorySessionStorage(), and the storage object of the
\* caller: each a Map from session id to the saved string
NoStorage == [own |-> EmptyMap, given |-> EmptyMap]

Range(s) == { s[i] : i \in DOMAIN s }
Min(S) == CHOOSE x \in S : \A y \in S : x <= y

\* ChapterPlan objects held by a suspended call or named by stored content
Pinned ==
    { calls[s].plan : s \in { x \in Slots : calls[x].plan # 0 } }
    \cup UNION { Range(calls[s].allChapters) : s \in Slots }
    \cup { chapters[k].plan : k \in DOMAIN chapters }
\* ChapterPlan objects something still refers to
Referenced == Range(outline.chapters) \cup Pinned
Free(used) == ObjIds \ (Referenced \cup used)

\* outline.chapters.find(c => c.number === n): its index, 0 when there is none
RECURSIVE FindFrom(_, _, _, _)
FindFrom(chs, hp, n, i) ==
    IF i > Len(chs) THEN 0
    ELSE IF hp[chs[i]].number = n THEN i ELSE FindFrom(chs, hp, n, i + 1)
findIndex(chs, hp, n) == FindFrom(chs, hp, n, 1)

\* outline.chapters.filter(keep)
RECURSIVE filterChapters(_, _, _)
filterChapters(chs, hp, drop) ==
    IF chs = << >> THEN << >>
    ELSE IF hp[Head(chs)].number \in drop
         THEN filterChapters(Tail(chs), hp, drop)
         ELSE <<Head(chs)>> \o filterChapters(Tail(chs), hp, drop)

SeqsUpTo(S, n) == UNION { [1..k -> S] : k \in 0..n }

\* lowest empty slot: where the next call is suspended
FreeSlots == { s \in Slots : calls[s].op = "idle" }
CanStart == Cardinality(Slots \ FreeSlots) < env.inflight /\ ops < env.maxOps

(***************************************************************************)
(* updateOutline (book-session.ts 207-332), step by step                    *)
(***************************************************************************)
\* changes.updateChapter: targetWords of the chapters found by number
RECURSIVE applyUpdates(_, _, _)
applyUpdates(ups, chs, hp) ==
    IF ups = << >> THEN hp
    ELSE LET i == findIndex(chs, hp, Head(ups).number)
             hp1 == IF i = 0 THEN hp
                    ELSE [hp EXCEPT ![chs[i]].targetWords = Head(ups).targetWords]
         IN  applyUpdates(Tail(ups), chs, hp1)

\* changes.addChapter: a new plan numbered 0, spliced in after afterChapter
\* or pushed at the end
RECURSIVE applyAdds(_, _, _, _)
applyAdds(adds, chs, hp, used) ==
    IF adds = << >> THEN [chs |-> chs, hp |-> hp]
    ELSE LET new == Min(Free(used))
             i == findIndex(chs, hp, Head(adds).afterChapter)
             hp1 == [hp EXCEPT ![new] = [number |-> 0, targetWords |-> Head(adds).targetWords]]
             chs1 == IF i # 0
                     THEN SubSeq(chs, 1, i) \o <<new>> \o SubSeq(chs, i + 1, Len(chs))
                     ELSE Append(chs, new)
         IN  applyAdds(Tail(adds), chs1, hp1, used \cup {new})

\* changes.mergeChapters: ch1 absorbs ch2, every chapter numbered num2 goes
RECURSIVE applyMerges(_, _, _)
applyMerges(ms, chs, hp) ==
    IF ms = << >> THEN [chs |-> chs, hp |-> hp]
    ELSE LET i1 == findIndex(chs, hp, Head(ms).num1)
             i2 == findIndex(chs, hp, Head(ms).num2)
         IN  IF i1 # 0 /\ i2 # 0
             THEN LET hp1 == [hp EXCEPT ![chs[i1]].targetWords =
                                 hp[chs[i1]].targetWords + hp[chs[i2]].targetWords]
                  IN  applyMerges(Tail(ms), filterChapters(chs, hp1, {Head(ms).num2}), hp1)
             ELSE applyMerges(Tail(ms), chs, hp)

\* changes.reorderChapters: the chapters found for the listed numbers, in that order
RECURSIVE applyReorder(_, _, _)
applyReorder(nums, chs, hp) ==
    IF nums = << >> THEN << >>
    ELSE LET i == findIndex(chs, hp, Head(nums))
         IN  (IF i # 0 THEN <<chs[i]>> ELSE << >>) \o applyReorder(Tail(nums), chs, hp)

\* outline.chapters.forEach((ch, i) => { ch.number = i + 1; })
RECURSIVE renumber(_, _, _)
renumber(chs, hp, i) ==
    IF i > Len(chs) THEN hp
    ELSE renumber(chs, [hp EXCEPT ![chs[i]].number = i], i + 1)

\* chapterStatuses.clear(), then one entry per chapter of the outline
rebuildStatuses(chs, hp) ==
    [n \in { hp[chs[i]].number : i \in DOMAIN chs } |->
        IF Has(chapters, n) THEN "approved" ELSE "pending"]

NoChanges == [removeChapters |-> {}, updateChapter |-> << >>, addChapter |-> << >>,
              mergeChapters |-> << >>, reorderChapters |-> [present |-> FALSE, list |-> << >>]]

\* the structural edits, in every combination
Changes ==
    [removeChapters : { r \in SUBSET (1..MaxObj) : Cardinality(r) <= MaxEdits },
     updateChapter : {<< >>},
     addChapter : SeqsUpTo([afterChapter : Numbers, targetWords : {1000}], MaxEdits),
     mergeChapters : SeqsUpTo([num1 : 1..MaxObj, num2 : 1..MaxObj], MaxEdits),
     reorderChapters : [present : {FALSE}, list : {<< >>}]
                       \cup [present : {TRUE}, list : SeqsUpTo(1..MaxObj, MaxReorder)]]

\* one edit of each kind, as a caller of a running session makes them
FewChanges ==
    { [NoChanges EXCEPT !.removeChapters = {1}],
      [NoChanges EXCEPT !.updateChapter = <<[number |-> 1, targetWords |-> 2000]>>],
      [NoChanges EXCEPT !.addChapter = <<[afterChapter |-> 1, targetWords |-> 1000]>>],
      [NoChanges EXCEPT !.mergeChapters = <<[num1 |-> 1, num2 |-> 2]>>],
      [NoChanges EXCEPT !.reorderChapters = [present |-> TRUE, list |-> <<2, 1>>]] }

outlineAfter(changes) ==
    LET c0 == outline.chapters
        c1 == filterChapters(c0, heap, changes.removeChapters)
        h1 == applyUpdates(changes.updateChapter, c1, heap)
        a == applyAdds(changes.addChapter, c1, h1, {})
        m == applyMerges(changes.mergeChapters, a.chs, a.hp)
        c4 == IF changes.reorderChapters.present
              THEN applyReorder(changes.reorderChapters.list, m.chs, m.hp)
              ELSE m.chs
    IN  [chs |-> c4, hp |-> renumber(c4, m.hp, 1)]

updateOutline(changes) ==
    /\ ops < env.maxOps
    /\ outline.present
    /\ Cardinality(Free({})) >= Len(changes.addChapter)
    /\ LET r == outlineAfter(changes)
       IN  /\ \A o \in ObjIds : r.hp[o].targetWords <= MaxTargetWords
           /\ outline' = [present |-> TRUE, chapters |-> r.chs]
           /\ heap' = r.hp
           /\ chapterStatuses' = rebuildStatuses(r.chs, r.hp)
    /\ last' = NoCall
    /\ ops' = ops + 1
    /\ UNCHANGED <<outlineApproved, chapters, rollingSummary, previousChapterEnding,
                   costs, phase, maxEditCycles, calls, env, storage, graph>>

approveOutline ==
    /\ outline.present
    /\ outlineApproved' = TRUE
    /\ phase' = "writing"
    /\ last' = NoCall
    /\ UNCHANGED <<outline, heap, chapters, chapterStatuses, rollingSummary,
                   previousChapterEnding, costs, maxEditCycles, calls, ops, env, storage, graph>>

(***************************************************************************)
(* generateOutline / regenerateOutline (book-session.ts 124-205)            *)
(***************************************************************************)
\* up to the await: phase = 'outline' (generateOutline), or approval revoked
\* (regenerateOutline)
generateOutlineCall(s) ==
    /\ CanStart /\ s = Min(FreeSlots)
    /\ phase' = "outline"
    /\ calls' = [calls EXCEPT ![s] = [Idle EXCEPT !.op = "generateOutline", !.pc = "outline"]]
    /\ ops' = ops + 1
    /\ last' = NoCall
    /\ UNCHANGED <<outline, heap, outlineApproved, chapters, chapterStatuses,
                   rollingSummary, previousChapterEnding, costs, maxEditCycles, env, storage, graph>>

regenerateOutlineCall(s) ==
    /\ CanStart /\ s = Min(FreeSlots)
    /\ outlineApproved' = FALSE
    /\ calls' = [calls EXCEPT ![s] = [Idle EXCEPT !.op = "regenerateOutline", !.pc = "outline"]]
    /\ ops' = ops + 1
    /\ last' = NoCall
    /\ UNCHANGED <<outline, heap, chapters, chapterStatuses, rollingSummary,
                   previousChapterEnding, costs, phase, maxEditCycles, env, storage, graph>>

\* the n fresh ChapterPlan objects of a generated outline, numbered 1..n
RECURSIVE freshPlans(_, _)
freshPlans(n, used) ==
    IF n = 0 THEN << >>
    ELSE LET new == Min(ObjIds \ (Pinned \cup used))
         IN  <<new>> \o freshPlans(n - 1, used \cup {new})

\* the model call returned an outline of n chapters
outlineReturns(s, n, tw) ==
    /\ calls[s].pc = "outline"
    /\ Cardinality(ObjIds \ Pinned) >= n
    /\ LET chs == freshPlans(n, {})
           new == [i \in 1..n |-> chs[i]]
       IN  /\ outline' = [present |-> TRUE, chapters |-> new]
           /\ heap' = [o \in ObjIds |->
                         IF \E i \in 1..n : new[i] = o
                         THEN [number |-> CHOOSE i \in 1..n : new[i] = o, targetWords |-> tw]
                         ELSE heap[o]]
           /\ chapterStatuses' =
                IF calls[s].op = "generateOutline"
                THEN [k \in (DOMAIN chapterStatuses) \cup (1..n) |->
                        IF k \in 1..n THEN "pending" ELSE chapterStatuses[k]]
                ELSE [k \in 1..n |-> "pending"]
    /\ outlineApproved' = IF calls[s].op = "generateOutline" THEN FALSE ELSE outlineApproved
    /\ costs' = costs + 1
    /\ calls' = [calls EXCEPT ![s] = Idle]
    /\ last' = NoCall
    /\ UNCHANGED <<chapters, rollingSummary, previousChapterEnding, phase,
                   maxEditCycles, ops, env, storage, graph>>

\* the model call threw: the method rejects, nothing else changes
outlineThrows(s) ==
    /\ calls[s].pc = "outline"
    /\ env.throws
    /\ calls' = [calls EXCEPT ![s] = Idle]
    /\ last' = NoCall
    /\ UNCHANGED <<sessionVars, maxEditCycles, ops, env, storage, graph>>

(***************************************************************************)
(* The chapter pipeline of BookSession.  A call is suspended at each await *)
(* of a model call; calls[s].pc names the call it waits for.  One action   *)
(* is the code from one await to the next.                                 *)
(***************************************************************************)
Undefined == -1

\* getNextPendingChapter (book-session.ts 1159-1169)
RECURSIVE nextPendingFrom(_)
nextPendingFrom(i) ==
    IF i > Len(outline.chapters) THEN Undefined
    ELSE LET n == heap[outline.chapters[i]].number
         IN  IF Has(chapterStatuses, n) /\ chapterStatuses[n] \in {"pending", "failed"}
             THEN n
             ELSE nextPendingFrom(i + 1)
getNextPendingChapter == IF ~outline.present THEN Undefined ELSE nextPendingFrom(1)

\* content.slice(-n): the trailing n characters
RECURSIVE sliceEnd(_, _)
sliceEnd(t, n) ==
    IF t = << >> \/ n <= 0 THEN << >>
    ELSE LET lp == t[Len(t)]
         IN  IF lp.c >= n
             THEN <<[lp EXCEPT !.c = n, !.w = IF lp.w = 0 THEN 0 ELSE n \div CharsPerWord]>>
             ELSE sliceEnd(SubSeq(t, 1, Len(t) - 1), n - lp.c - lp.gap) \o <<lp>>
EndingChars == 2000
maxSummaryWords == 2000

\* the session fields a pipeline step can write
SetSession(st, chs, rs, pe, cs, ph) ==
    /\ chapterStatuses' = st
    /\ chapters' = chs
    /\ rollingSummary' = rs
    /\ previousChapterEnding' = pe
    /\ costs' = cs
    /\ phase' = ph
    /\ UNCHANGED <<outline, heap, outlineApproved, maxEditCycles, env, storage, graph>>

\* only the ledger grows
Charge(n) ==
    SetSession(chapterStatuses, chapters, rollingSummary, previousChapterEnding,
               costs + n, phase)

\* a faulty edit loop: the test is editCount <= maxEditCycles
EditLoopOneMore(c) ==
    IF c.editCount <= maxEditCycles THEN [c EXCEPT !.pc = "edit"]
    ELSE [c EXCEPT !.pc = "summary", !.approved = TRUE]

\* a faulty edit loop: a rejected chapter is always edited once more
EditLoopUnlimited(c) == [c EXCEPT !.pc = "edit"]

\* the edit loop's test: while (editCount < maxEditCycles)
EditLoop(c) ==
    IF c.editCount < maxEditCycles THEN [c EXCEPT !.pc = "edit"]
    ELSE [c EXCEPT !.pc = "summary", !.approved = TRUE]

\* what follows a return of expandIfNeeded
AfterExpand(c0) ==
    LET c == [c0 EXCEPT !.returned = c0.draft, !.loopDone = TRUE]
    IN
    CASE c.after = "first" ->
            \* Step 3b, then the edit cycles start
            EditLoop([c EXCEPT !.draft = stripRefusalContent(c.draft),
                               !.wordCount = countWords(stripRefusalContent(c.draft)),
                               !.editCount = 0])
      [] c.after = "rewrite" ->
            EditLoop([c EXCEPT !.editCount = c.editCount + 1])
      [] c.after = "rewriteChapter" -> [c EXCEPT !.pc = "edit"]
      [] OTHER -> [c EXCEPT !.pc = "summary"]

\* a faulty loop test: the attempts are not counted against maxAttempts
ExpandLoopUncounted(c) ==
    IF c.wordCount < c.minAcceptable
    THEN [c EXCEPT !.pc = "expand", !.attempts = c.attempts + 1,
                   !.fresh = c.wordCount < FreshBelow /\ c.hasPlan,
                   !.expandCalls = c.expandCalls + 1]
    ELSE AfterExpand(c)

\* expandIfNeeded's loop test (book-session.ts 965): another attempt, or return
ExpandLoop(c) ==
    IF c.wordCount < c.minAcceptable /\ c.attempts < maxAttempts
    THEN [c EXCEPT !.pc = "expand", !.attempts = c.attempts + 1,
                   !.fresh = c.wordCount < FreshBelow /\ c.hasPlan,
                   !.expandCalls = c.expandCalls + 1]
    ELSE AfterExpand(c)

\* expandIfNeeded(chapter, content, targetWords, costs, 3, plan?) up to its first await
EnterExpand(c, content, targetWords, hasPlan, after) ==
    ExpandLoop([c EXCEPT !.draft = content, !.wordCount = countWords(content),
                         !.attempts = 0, !.minAcceptable = minAcceptableOf(targetWords),
                         !.hasPlan = hasPlan, !.after = after, !.given = content,
                         !.track = <<countWords(content)>>])

\* the word count of the current best after an attempt, for the record
Tracked(c) == [c EXCEPT !.track = Append(c.track, c.wordCount)]

\* a faulty expandIfNeeded: an answer that is no refusal is accepted whatever
\* its length
expandAttemptAcceptsShorter(c, rawText) ==
    LET refusal == detectRefusal(rawText)
        stripped == stripExpandPreamble(rawText)
    IN  IF refusal.isRefusal
        THEN ExpandLoop(Tracked(c))
        ELSE ExpandLoop(Tracked([c EXCEPT !.draft = stripped,
                                          !.wordCount = countWords(stripped)]))

\* a faulty expandIfNeeded: an answer that is not longer is skipped and the
\* loop goes on
expandAttemptGoesOn(c, rawText) ==
    LET refusal == detectRefusal(rawText)
        stripped == stripExpandPreamble(rawText)
    IN  IF ~refusal.isRefusal /\ countWords(stripped) > c.wordCount
        THEN ExpandLoop(Tracked([c EXCEPT !.draft = stripped,
                                          !.wordCount = countWords(stripped)]))
        ELSE ExpandLoop(Tracked(c))

\* one answer of the model inside expandIfNeeded (book-session.ts 1015-1045)
expandAttempt(c, rawText) ==
    LET refusal == detectRefusal(rawText)
        cleanedCheck == detectRefusal(refusal.cleanedText)
        cleanedWordCount == countWords(refusal.cleanedText)
        stripped == stripExpandPreamble(rawText)
        expandedWordCount == countWords(stripped)
        salvaged == [c EXCEPT !.draft = refusal.cleanedText, !.wordCount = cleanedWordCount]
        expanded == [c EXCEPT !.draft = stripped, !.wordCount = expandedWordCount]
    IN  IF refusal.isRefusal
        THEN IF cleanedCheck.isRefusal \/ cleanedWordCount < MinSalvageWords
             THEN ExpandLoop(Tracked(c))
             ELSE IF cleanedWordCount > c.wordCount
                  THEN ExpandLoop(Tracked(salvaged))
                  ELSE ExpandLoop(Tracked(c))
        ELSE IF expandedWordCount > c.wordCount
             THEN ExpandLoop(Tracked(expanded))
             ELSE AfterExpand(Tracked(c))

\* a faulty writeChapter: the last clean salvage is kept, not the longest
writeAttemptKeepsLast(c, text) ==
    LET refusal == detectRefusal(text)
        cleanedRefusal == detectRefusal(refusal.cleanedText)
        cleanedWordCount == countWords(refusal.cleanedText)
        better == ~cleanedRefusal.isRefusal
        c1 == [c EXCEPT !.bestText = IF better THEN refusal.cleanedText ELSE c.bestText,
                        !.bestWordCount = IF better THEN cleanedWordCount ELSE c.bestWordCount,
                        !.hist = Append(c.hist, text)]
    IN  IF ~refusal.isRefusal
        THEN [c EXCEPT !.draft = text, !.pc = "written", !.hist = Append(c.hist, text)]
        ELSE IF c.attempt + 1 <= maxRefusalRetries
             THEN [c1 EXCEPT !.attempt = c.attempt + 1, !.writerCalls = c.writerCalls + 1]
             ELSE [c1 EXCEPT !.attempt = c.attempt + 1, !.pc = "written",
                             !.draft = IF c1.bestWordCount >= MinSalvageWords
                                       THEN c1.bestText ELSE << >>]

\* one answer of the model inside writeChapter (book-session.ts 867-900)
writeAttempt(c, text) ==
    LET refusal == detectRefusal(text)
        cleanedRefusal == detectRefusal(refusal.cleanedText)
        cleanedWordCount == countWords(refusal.cleanedText)
        better == ~cleanedRefusal.isRefusal /\ cleanedWordCount > c.bestWordCount
        c1 == [c EXCEPT !.bestText = IF better THEN refusal.cleanedText ELSE c.bestText,
                        !.bestWordCount = IF better THEN cleanedWordCount ELSE c.bestWordCount,
                        !.hist = Append(c.hist, text)]
    IN  IF ~refusal.isRefusal
        THEN [c EXCEPT !.draft = text, !.pc = "written", !.hist = Append(c.hist, text)]
        ELSE IF c.attempt + 1 <= maxRefusalRetries
             THEN [c1 EXCEPT !.attempt = c.attempt + 1, !.writerCalls = c.writerCalls + 1]
             ELSE [c1 EXCEPT !.attempt = c.attempt + 1, !.pc = "written",
                             !.draft = IF c1.bestWordCount >= MinSalvageWords
                                       THEN c1.bestText ELSE << >>]

\* the locals of writeChapter and expandIfNeeded are dead once the next
\* call has been answered
ForgetWrite(c) ==
    [c EXCEPT !.hist = << >>, !.bestText = << >>, !.bestWordCount = 0, !.attempt = 0]
Forget(c) ==
    [ForgetWrite(c) EXCEPT !.given = << >>, !.returned = << >>, !.loopDone = FALSE,
                           !.answer = << >>, !.track = << >>, !.overall = 0]

ChapterOps == {"generateChapter", "rewriteChapter", "expandChapter", "generateAllRemaining"}

\* a call that throws before it changes anything
Rejects(opName) ==
    /\ last' = [op |-> opName, outcome |-> "error", events |-> << >>]
    /\ ops' = ops + 1
    /\ UNCHANGED <<sessionVars, maxEditCycles, calls, env, storage, graph>>

\* generateChapter up to its first await (book-session.ts 345-369)
generateChapterCall(s, chapterNumber) ==
    /\ CanStart /\ s = Min(FreeSlots)
    /\ LET targetChapter == IF chapterNumber # Undefined THEN chapterNumber
                            ELSE getNextPendingChapter
           i == findIndex(outline.chapters, heap, targetChapter)
       IN  IF ~outlineApproved \/ targetChapter = Undefined \/ i = 0
           THEN Rejects("generateChapter")
           ELSE /\ calls' = [calls EXCEPT ![s] =
                       [Idle EXCEPT !.op = "generateChapter", !.pc = "plan",
                                    !.target = targetChapter,
                                    !.plan = outline.chapters[i],
                                    !.outlineLen = Len(outline.chapters)]]
                /\ ops' = ops + 1
                /\ last' = NoCall
                /\ SetSession(Put(chapterStatuses, targetChapter, "generating"), chapters,
                              rollingSummary, previousChapterEnding, costs, phase)

\* rewriteChapter up to its first await (book-session.ts 502-520)
rewriteChapterCall(s, chapter) ==
    /\ CanStart /\ s = Min(FreeSlots)
    /\ LET i == findIndex(outline.chapters, heap, chapter)
       IN  IF ~outlineApproved \/ i = 0
           THEN Rejects("rewriteChapter")
           ELSE /\ calls' = [calls EXCEPT ![s] =
                       [Idle EXCEPT !.op = "rewriteChapter", !.pc = "plan",
                                    !.target = chapter, !.plan = outline.chapters[i]]]
                /\ ops' = ops + 1
                /\ last' = NoCall
                /\ SetSession(Put(chapterStatuses, chapter, "generating"), chapters,
                              rollingSummary, previousChapterEnding, costs, phase)

\* expandChapter up to its first await, or to its end when the chapter is
\* long enough (book-session.ts 568-607)
DefaultExpandTarget == 2000
expandChapterCall(s, chapter, targetWords) ==
    /\ CanStart /\ s = Min(FreeSlots)
    /\ IF ~Has(chapters, chapter)
       THEN Rejects("expandChapter")
       ELSE LET i == findIndex(outline.chapters, heap, chapter)
                target == IF targetWords # Undefined THEN targetWords
                          ELSE IF i # 0 THEN heap[outline.chapters[i]].targetWords
                          ELSE DefaultExpandTarget
                c == EnterExpand([Idle EXCEPT !.op = "expandChapter", !.target = chapter],
                                 chapters[chapter].content, target, FALSE, "expandChapter")
            IN  /\ calls' = [calls EXCEPT ![s] = c]
                /\ ops' = ops + 1
                /\ last' = NoCall
                /\ SetSession(Put(chapterStatuses, chapter, "generating"), chapters,
                              rollingSummary, previousChapterEnding, costs, phase)

\* generateDetailedPlan returned
planReturns(s) ==
    /\ calls[s].pc = "plan"
    /\ calls' = [calls EXCEPT ![s] =
          IF calls[s].op = "generateChapter"
          THEN [calls[s] EXCEPT !.pc = "write", !.attempt = 0, !.writerCalls = 1]
          ELSE [calls[s] EXCEPT !.pc = "rewrite"]]
    /\ last' = NoCall
    /\ ops' = ops
    /\ Charge(1)

\* a writer attempt of writeChapter returned text
writeReturns(s, text) ==
    /\ calls[s].pc = "write"
    /\ LET c == writeAttempt(calls[s], text)
       IN  calls' = [calls EXCEPT ![s] =
              IF c.pc = "written"
              THEN EnterExpand(c, c.draft, heap[c.plan].targetWords, TRUE, "first")
              ELSE c]
    /\ last' = NoCall
    /\ ops' = ops
    /\ Charge(1)

\* an expand (or fresh-generate) call of expandIfNeeded returned text
expandReturns(s, rawText) ==
    /\ calls[s].pc = "expand"
    /\ calls' = [calls EXCEPT ![s] =
          expandAttempt([ForgetWrite(calls[s]) EXCEPT !.answer = rawText], rawText)]
    /\ last' = NoCall
    /\ ops' = ops
    /\ Charge(1)

\* editChapter returned a verdict (book-session.ts 397-425, 527)
editReturns(s, editResult) ==
    /\ calls[s].pc = "edit"
    /\ LET c == [Forget(calls[s]) EXCEPT !.overall = editResult.overall]
       IN  calls' = [calls EXCEPT ![s] =
              IF c.op = "rewriteChapter"
              THEN [c EXCEPT !.edits = 1, !.pc = "summary", !.approved = TRUE]
              ELSE IF editResult.approved
                   THEN [c EXCEPT !.edits = c.edits + 1, !.approved = TRUE, !.pc = "summary"]
                   ELSE [c EXCEPT !.edits = c.edits + 1, !.rejects = c.rejects + 1,
                                  !.pc = "rewrite"]]
    /\ last' = NoCall
    /\ ops' = ops
    /\ Charge(1)

\* rewriteFromFeedback returned text (book-session.ts 937-947), then
\* expandIfNeeded starts
rewriteReturns(s, text) ==
    /\ calls[s].pc = "rewrite"
    /\ LET c == Forget(calls[s])
           refusal == detectRefusal(text)
           finalText == IF refusal.isRefusal THEN refusal.cleanedText ELSE text
           existingDraft == IF c.op = "generateChapter" THEN c.draft ELSE << >>
           kept == IF existingDraft # << >>
                      /\ 2 * countWords(finalText) < countWords(existingDraft)
                   THEN existingDraft ELSE finalText
       IN  calls' = [calls EXCEPT ![s] =
              IF c.op = "generateChapter"
              THEN EnterExpand(c, kept, heap[c.plan].targetWords, TRUE, "rewrite")
              ELSE EnterExpand(c, kept, heap[c.plan].targetWords, FALSE, "rewriteChapter")]
    /\ last' = NoCall
    /\ ops' = ops
    /\ Charge(1)

(***************************************************************************)
(* generateAllRemaining (book-session.ts 609-655): the loop runs in the    *)
(* slot of the call; the generateChapter it awaits runs in the same slot.  *)
(***************************************************************************)
\* the for loop from chapter i of the outline captured at the start, up to
\* the await inside the next generateChapter, or to the end of the loop.
\* A generateChapter that throws at once is caught and marked failed.
RECURSIVE allLoop(_, _, _, _)
allLoop(i, chs, st, events) ==
    IF i > Len(chs) THEN [st |-> st, idx |-> 0, plan |-> 0, events |-> events]
    ELSE LET n == heap[chs[i]].number
             j == findIndex(outline.chapters, heap, n)
         IN  IF Has(st, n) /\ st[n] \in {"approved", "failed"}
             THEN allLoop(i + 1, chs, st, events)
             ELSE IF ~outlineApproved \/ j = 0
                  THEN allLoop(i + 1, chs, Put(st, n, "failed"),
                               Append(events, ChapterFailed(n)))
                  ELSE [st |-> Put(st, n, "generating"), idx |-> i,
                        plan |-> outline.chapters[j], events |-> events]

\* every chapter of the captured outline is approved or failed
allDone(chs, st) ==
    \A i \in DOMAIN chs :
        Has(st, heap[chs[i]].number) /\ st[heap[chs[i]].number] \in {"approved", "failed"}

\* the call record and the session after the loop has run on from chapter i
allContinue(c, i, st, events) ==
    LET r == allLoop(i, c.allChapters, st, events)
    IN  [call |-> IF r.idx = 0 THEN Idle
                  ELSE [Idle EXCEPT !.op = "generateChapter", !.pc = "plan",
                                    !.target = heap[c.allChapters[r.idx]].number,
                                    !.plan = r.plan,
                                    !.outlineLen = Len(outline.chapters),
                                    !.inAll = TRUE, !.allChapters = c.allChapters,
                                    !.allIdx = r.idx],
         st |-> r.st, events |-> r.events,
         ph |-> IF r.idx = 0 /\ allDone(c.allChapters, r.st) THEN "complete" ELSE phase]

generateAllRemainingCall(s) ==
    /\ CanStart /\ s = Min(FreeSlots)
    /\ IF ~outlineApproved
       THEN Rejects("generateAllRemaining")
       ELSE LET r == allContinue([Idle EXCEPT !.allChapters = outline.chapters], 1,
                                 chapterStatuses, << >>)
            IN  /\ calls' = [calls EXCEPT ![s] = r.call]
                /\ ops' = ops + 1
                /\ last' = Emitted(r.events)
                /\ SetSession(r.st, chapters, rollingSummary, previousChapterEnding,
                              costs, r.ph)

\* the consumer asks for the next result: the loop goes on
allResumes(s) ==
    /\ calls[s].pc = "yielded"
    /\ LET r == allContinue(calls[s], calls[s].allIdx + 1, chapterStatuses, << >>)
       IN  /\ calls' = [calls EXCEPT ![s] = r.call]
           /\ SetSession(r.st, chapters, rollingSummary, previousChapterEnding, costs, r.ph)
           /\ last' = Emitted(r.events)
    /\ ops' = ops

\* the consumer stops consuming the sequence between two chapters
allAbandoned(s) ==
    /\ calls[s].pc = "yielded"
    /\ calls' = [calls EXCEPT ![s] = Idle]
    /\ last' = NoCall
    /\ UNCHANGED <<sessionVars, maxEditCycles, ops, env, storage, graph>>

(***************************************************************************)
(* The end of a chapter operation                                          *)
(***************************************************************************)
\* a faulty end of generateChapter: a chapter without content fails
StoreFailsEmpty(s, c, rs, pe, cs) ==
    LET content == [plan |-> c.plan, content |-> c.draft,
                    wordCount |-> countWords(c.draft), summary |-> c.summary,
                    editCount |-> c.edits, approved |-> TRUE]
        empty == countWords(c.draft) = 0
    IN  /\ calls' = [calls EXCEPT ![s] = Idle]
        /\ SetSession(Put(chapterStatuses, c.target, IF empty THEN "failed" ELSE "approved"),
                      IF empty THEN chapters ELSE Put(chapters, c.target, content),
                      rs, pe, cs, phase)
        /\ last' = IF empty THEN Emitted(<<ChapterFailed(c.target)>>) ELSE NoCall

\* the chapter is stored and the method returns (book-session.ts 439-488,
\* 537-561, 587-606)
Store(s, c, rs, pe, cs) ==
    LET content == IF c.op = "expandChapter"
                   THEN [chapters[c.target] EXCEPT !.content = c.draft,
                                                   !.wordCount = countWords(c.draft),
                                                   !.summary = c.summary]
                   ELSE [plan |-> c.plan, content |-> c.draft,
                         wordCount |-> countWords(c.draft), summary |-> c.summary,
                         editCount |-> c.edits, approved |-> TRUE]
        chs == Put(chapters, c.target, content)
        st == Put(chapterStatuses, c.target, "approved")
        ph == IF c.op = "generateChapter" /\ Cardinality(DOMAIN chs) = c.outlineLen
              THEN "complete" ELSE phase
        meetsTarget == checkWordTarget(countWords(c.draft), heap[c.plan].targetWords)
    IN  /\ calls' = [calls EXCEPT ![s] =
                 IF c.inAll THEN [c EXCEPT !.pc = "yielded"] ELSE Idle]
        /\ SetSession(st, chs, rs, pe, cs, ph)
        /\ last' = IF c.op = "generateChapter" /\ ~meetsTarget
                   THEN Emitted(<<WordCountWarning(c.target)>>) ELSE NoCall

\* generateChapterSummary returned, or threw and fell back to the head of
\* the chapter (book-session.ts 1079-1103); updateContinuity starts
summaryEnds(s, ok) ==
    /\ calls[s].pc = "summary"
    /\ ok \/ env.throws
    /\ LET c == [Forget(calls[s]) EXCEPT !.summary = IF ok THEN "model" ELSE "fallback"]
           cs == IF ok THEN costs + 1 ELSE costs
       IN  IF c.op = "expandChapter" \/ ~env.continuity
           THEN Store(s, c, rollingSummary, previousChapterEnding, cs)
           ELSE /\ calls' = [calls EXCEPT ![s] = [c EXCEPT !.pc = "continuity"]]
                /\ SetSession(chapterStatuses, chapters, rollingSummary,
                              previousChapterEnding, cs, phase)
                /\ last' = NoCall
    /\ ops' = ops

\* the continuity call returned newSummary, a text of one paragraph per
\* sentence (book-session.ts 1119-1152)
continuityReturns(s, newSummary) ==
    /\ calls[s].pc = "continuity"
    /\ LET c == calls[s]
       IN  IF countWords(newSummary) > maxSummaryWords
           THEN /\ calls' = [calls EXCEPT ![s] =
                       [c EXCEPT !.pc = "condense", !.newSummary = newSummary]]
                /\ UNCHANGED <<sessionVars, maxEditCycles, env, storage, graph>>
                /\ last' = NoCall
           ELSE Store(s, c, newSummary, sliceEnd(c.draft, EndingChars), costs + 1)
    /\ ops' = ops

\* the continuity call threw: non-fatal (book-session.ts 1153-1156)
continuityThrows(s) ==
    /\ calls[s].pc = "continuity"
    /\ env.throws
    /\ Store(s, calls[s], rollingSummary, sliceEnd(calls[s].draft, EndingChars), costs)
    /\ ops' = ops

\* the condensation call returned w words (book-session.ts 1137-1143)
condenseReturns(s, w) ==
    /\ calls[s].pc = "condense"
    /\ Store(s, [calls[s] EXCEPT !.newSummary = << >>], <<Prose(w)>>,
             sliceEnd(calls[s].draft, EndingChars), costs + 2)
    /\ ops' = ops

\* the condensation call threw (book-session.ts 1144-1146)
condenseThrows(s) ==
    /\ calls[s].pc = "condense"
    /\ env.throws
    /\ Store(s, [calls[s] EXCEPT !.newSummary = << >>], calls[s].newSummary,
             sliceEnd(calls[s].draft, EndingChars), costs + 1)
    /\ ops' = ops

\* a faulty generateAllRemaining: the error of generateChapter ends the run
callThrowsAndAborts(s) ==
    /\ calls[s].pc \in {"plan", "write", "expand", "edit", "rewrite"}
    /\ env.throws
    /\ LET c == calls[s]
           st == IF c.op = "expandChapter" THEN chapterStatuses
                 ELSE Put(chapterStatuses, c.target, "failed")
       IN  /\ calls' = [calls EXCEPT ![s] = Idle]
           /\ SetSession(st, chapters, rollingSummary, previousChapterEnding, costs, phase)
           /\ last' = Emitted(IF c.op = "generateChapter" THEN <<ChapterFailed(c.target)>>
                              ELSE << >>)
    /\ ops' = ops

\* a model call of the pipeline threw: the catch blocks of generateChapter
\* (489-499), rewriteChapter (562-565) and generateAllRemaining (632-642);
\* expandChapter has none
callThrows(s) ==
    /\ calls[s].pc \in {"plan", "write", "expand", "edit", "rewrite"}
    /\ env.throws
    /\ LET c == calls[s]
           st == IF c.op = "expandChapter" THEN chapterStatuses
                 ELSE Put(chapterStatuses, c.target, "failed")
           failed == IF c.op = "generateChapter" THEN <<ChapterFailed(c.target)>>
                     ELSE << >>
           ch == heap[c.allChapters[c.allIdx]].number
           r == allContinue(c, c.allIdx + 1, Put(st, ch, "failed"),
                            Append(failed, ChapterFailed(ch)))
       IN  IF c.inAll
           THEN /\ calls' = [calls EXCEPT ![s] = r.call]
                /\ SetSession(r.st, chapters, rollingSummary, previousChapterEnding,
                              costs, r.ph)
                /\ last' = Emitted(r.events)
           ELSE /\ calls' = [calls EXCEPT ![s] = Idle]
                /\ SetSession(st, chapters, rollingSummary, previousChapterEnding,
                              costs, phase)
                /\ last' = Emitted(failed)
    /\ ops' = ops

(***************************************************************************)
(* The generation graph (graph/book-graph.ts): generate_outline, planner,  *)
(* writer, editor, continuity.  graph.node is the node whose model call is *)
(* in flight and graph.pc the call inside writerNode or continuityNode     *)
(* that is awaited.  config.humanReview has its default, false.  There are *)
(* two writerNode sources; env.writerNode says which one the build holds.  *)
(***************************************************************************)
\* writerNode's expand loop: while (wordCount < minAcceptable && expandAttempts < 3)
maxExpandAttempts == 3

\* BookState's defaults, the locals of the running node, and the history of
\* the current chapter; warnings counts the word_count_warning events that
\* the writer has pushed to pendingEvents for the current chapter
NoGraph ==
    [node |-> "START", pc |-> "none", outlineLen |-> 0, targetWords |-> 0,
     currentPhase |-> "idle", currentChapter |-> 0, currentDraft |-> << >>,
     currentEditResult |-> "null", editCount |-> 0, chapters |-> << >>,
     rollingSummary |-> << >>, previousChapterEnding |-> << >>, costs |-> 0,
     attempt |-> 0, finalContent |-> << >>, bestCleanedContent |-> << >>,
     bestCleanedWordCount |-> 0, wordCount |-> 0, minAcceptable |-> 0,
     expandAttempts |-> 0, nodeCosts |-> 0, newSummary |-> << >>,
     writerRuns |-> 0, writerCalls |-> 0, expandCalls |-> 0, hist |-> << >>,
     given |-> << >>, returned |-> << >>, loopDone |-> FALSE, answer |-> << >>,
     rejects |-> 0, track |-> << >>, overall |-> 0, warnings |-> 0, fresh |-> FALSE,
     humanFeedback |-> "null", editInstructions |-> "none", reviews |-> 0,
     pendingEvents |-> << >>, yielded |-> << >>]

\* a progress event of a node: its type, its chapter, and the attempt or
\* the cycle it reports
Event(type, chapter, n) == [type |-> type, chapter |-> chapter, n |-> n]
\* the reducer of BookState.pendingEvents (part_005 89-93)
pendingEventsReducer(prev, next) == prev \o next
\* the body of generate's loop for one streamed state (longform-ai.ts
\* 102-110): every event of state.pendingEvents is yielded
yieldPending(g) == [g EXCEPT !.yielded = g.yielded \o g.pendingEvents]
\* a node returned events: the state's channel is updated, the state is
\* streamed (streamMode 'values') and generate's loop runs for it.  Kept
\* only for runs whose consumer is observed (env.stream)
streamed(g, events) ==
    IF env.stream
    THEN yieldPending([g EXCEPT !.pendingEvents =
                                   pendingEventsReducer(g.pendingEvents, events)])
    ELSE g
\* the events of a writer run: chapter_written, one expand_attempt per
\* attempt, and the warning (part_008 156-175, 264-272)
writerEvents(g) ==
    <<Event("chapter_written", g.currentChapter, 0)>>
    \o [i \in 1..g.expandAttempts |-> Event("expand_attempt", g.currentChapter, i)]
    \o (IF g.wordCount < g.minAcceptable
        THEN <<Event("word_count_warning", g.currentChapter, 0)>> ELSE << >>)

\* the locals of a node are dead when the node has returned
forgetNode(g) ==
    [g EXCEPT !.attempt = 0, !.finalContent = << >>, !.bestCleanedContent = << >>,
              !.bestCleanedWordCount = 0, !.wordCount = 0, !.minAcceptable = 0,
              !.expandAttempts = 0, !.nodeCosts = 0, !.newSummary = << >>,
              !.hist = << >>, !.given = << >>, !.returned = << >>,
              !.loopDone = FALSE, !.answer = << >>, !.track = << >>, !.fresh = FALSE,
              !.editInstructions = "none"]

\* the rewrite instructions of a result that did not approve: the editor's,
\* or the human reviewer's
rewriteInstructions(editResult) ==
    CASE editResult = "rejected" -> "editor"
      [] editResult = "human" -> "human"
      [] OTHER -> "none"

\* writerNode up to its first model call; editInstructions (part_008 60-63,
\* writer.ts 33-35) are those of currentEditResult when it did not approve
enterWriter(g) ==
    [forgetNode(g) EXCEPT !.node = "writer", !.pc = "write",
                          !.editInstructions = rewriteInstructions(g.currentEditResult),
                          !.writerRuns = g.writerRuns + 1,
                          !.writerCalls = g.writerCalls + 1]

\* editorRouter without the test of the edit budget
editorRouterNoBudget(g) ==
    IF g.currentEditResult = "approved" THEN "continuity" ELSE "writer"

\* editorRouter (edges.ts)
editorRouter(g) ==
    IF g.currentEditResult = "approved" THEN "continuity"
    ELSE IF g.editCount >= maxEditCycles THEN "continuity"
    ELSE "writer"

\* chapterRouter (edges.ts)
chapterRouter(g) ==
    IF g.currentPhase = "complete" THEN "END"
    ELSE IF g.currentChapter <= g.outlineLen THEN "planner"
    ELSE "END"

\* the graph is invoked
invoke ==
    /\ graph.node = "START"
    /\ env.graphRuns > 0
    /\ graph' = [graph EXCEPT !.node = "generate_outline"]
    /\ UNCHANGED <<sessionVars, maxEditCycles, calls, ops, last, env, storage>>

\* outlineNode returned an outline of n chapters
outlineNode(n, tw) ==
    /\ graph.node = "generate_outline"
    /\ graph' = streamed([graph EXCEPT !.node = "planner", !.outlineLen = n,
                                       !.targetWords = tw,
                                       !.currentPhase = "planning", !.currentChapter = 1,
                                       !.costs = graph.costs + 1],
                         <<Event("outline_complete", 0, 0)>>)
    /\ UNCHANGED <<sessionVars, maxEditCycles, calls, ops, last, env, storage>>

\* plannerNode returned the detailed plan of the current chapter
plannerNode ==
    /\ graph.node = "planner"
    /\ graph' = streamed(
                   enterWriter([graph EXCEPT !.currentPhase = "writing", !.editCount = 0,
                                             !.currentEditResult = "null", !.overall = 0,
                                             !.costs = graph.costs + 1,
                                             !.writerRuns = 0, !.writerCalls = 0,
                                             !.expandCalls = 0, !.rejects = 0,
                                             !.warnings = 0]),
                   <<Event("chapter_started", graph.currentChapter, 0)>>)
    /\ UNCHANGED <<sessionVars, maxEditCycles, calls, ops, last, env, storage>>

\* the end of writerNode's loops: the summary call is made
\* (writer.ts 181-200)
writerDoneOld(g) ==
    [g EXCEPT !.pc = "summary", !.returned = g.finalContent, !.loopDone = TRUE,
              !.fresh = FALSE,
              !.warnings = IF g.wordCount < g.minAcceptable THEN g.warnings + 1
                           ELSE g.warnings]
\* the same with the full-text refusal scan before it (part_008 260-284)
writerDoneNew(g) ==
    [g EXCEPT !.pc = "summary", !.returned = g.finalContent, !.loopDone = TRUE,
              !.fresh = FALSE,
              !.finalContent = stripRefusalContent(g.finalContent),
              !.wordCount = countWords(stripRefusalContent(g.finalContent)),
              !.warnings = IF countWords(stripRefusalContent(g.finalContent))
                                 < g.minAcceptable
                           THEN g.warnings + 1 ELSE g.warnings]
writerDone(g) ==
    IF env.writerNode = "part_008" THEN writerDoneNew(g) ELSE writerDoneOld(g)

\* the expand loop's test: another expand call, or the loop ends.  Below
\* 50 words part_008 (180-194) makes the call with the writer prompt;
\* writer.ts (151-156) always makes it with the expand prompt
writerLoop(g) ==
    IF g.wordCount < g.minAcceptable /\ g.expandAttempts < maxExpandAttempts
    THEN [g EXCEPT !.pc = "expand", !.expandAttempts = g.expandAttempts + 1,
                   !.expandCalls = g.expandCalls + 1,
                   !.fresh = g.wordCount < FreshBelow /\ env.writerNode = "part_008"]
    ELSE writerDone(g)

\* "if all attempts were refusals, use the best cleaned text" (writer.ts 120-123)
seedOld(g) ==
    IF g.finalContent = << >> THEN g.bestCleanedContent ELSE g.finalContent
\* the same, from 100 words on (part_008 148-153)
seedNew(g) ==
    IF g.finalContent = << >>
    THEN IF g.bestCleanedWordCount >= MinSalvageWords THEN g.bestCleanedContent ELSE << >>
    ELSE g.finalContent

\* from the end of the refusal retries to the first expand call
enterLoop(g) ==
    LET seed == IF env.writerNode = "part_008" THEN seedNew(g) ELSE seedOld(g)
    IN  writerLoop([g EXCEPT !.finalContent = seed, !.wordCount = countWords(seed),
                             !.minAcceptable = minAcceptableOf(g.targetWords),
                             !.expandAttempts = 0, !.given = seed,
                             !.track = <<countWords(seed)>>])

\* one answer of the model in the refusal-retry loop (part_008 110-146,
\* writer.ts 82-118)
retryAttempt(g, text) ==
    LET refusal == detectRefusal(text)
        cleanedRefusal == detectRefusal(refusal.cleanedText)
        cleanedWordCount == countWords(refusal.cleanedText)
        better == ~cleanedRefusal.isRefusal /\ cleanedWordCount > g.bestCleanedWordCount
        g0 == [g EXCEPT !.nodeCosts = g.nodeCosts + 1, !.hist = Append(g.hist, text)]
        g1 == [g0 EXCEPT !.bestCleanedContent =
                             IF better THEN refusal.cleanedText ELSE g.bestCleanedContent,
                         !.bestCleanedWordCount =
                             IF better THEN cleanedWordCount ELSE g.bestCleanedWordCount,
                         !.attempt = g.attempt + 1]
    IN  IF ~refusal.isRefusal
        THEN enterLoop([g0 EXCEPT !.finalContent = text])
        ELSE IF g.attempt + 1 <= maxRefusalRetries
             THEN [g1 EXCEPT !.writerCalls = g.writerCalls + 1]
             ELSE enterLoop(g1)

\* one answer of the model in the expand loop (writer.ts 158-178)
expandOld(g, rawExpanded) ==
    LET expandRefusal == detectRefusal(rawExpanded)
        expanded == IF expandRefusal.isRefusal THEN expandRefusal.cleanedText
                    ELSE rawExpanded
        expandedWordCount == countWords(expanded)
    IN  IF expandedWordCount > g.wordCount
        THEN writerLoop(Tracked([g EXCEPT !.finalContent = expanded,
                                          !.wordCount = expandedWordCount,
                                          !.nodeCosts = g.nodeCosts + 1]))
        ELSE writerDone(Tracked(g))

\* one answer of the model in the expand loop (part_008 207-257)
expandNew(g, rawText) ==
    LET expandRefusal == detectRefusal(rawText)
        cleanedCheck == detectRefusal(expandRefusal.cleanedText)
        cleanedWordCount == countWords(expandRefusal.cleanedText)
        stripped == stripExpandPreamble(rawText)
        expandedWordCount == countWords(stripped)
        charged == [g EXCEPT !.nodeCosts = g.nodeCosts + 1]
        salvaged == [charged EXCEPT !.finalContent = expandRefusal.cleanedText,
                                    !.wordCount = cleanedWordCount]
        expanded == [charged EXCEPT !.finalContent = stripped,
                                    !.wordCount = expandedWordCount]
    IN  IF expandRefusal.isRefusal
        THEN IF cleanedCheck.isRefusal \/ cleanedWordCount < MinSalvageWords
             THEN writerLoop(Tracked(charged))
             ELSE IF cleanedWordCount > g.wordCount
                  THEN writerLoop(Tracked(salvaged))
                  ELSE writerLoop(Tracked(charged))
        ELSE IF expandedWordCount > g.wordCount
             THEN writerLoop(Tracked(expanded))
             ELSE writerDone(Tracked(g))

\* the locals of the refusal retries are dead once the expand loop runs
forgetRetries(g) ==
    [g EXCEPT !.hist = << >>, !.bestCleanedContent = << >>, !.bestCleanedWordCount = 0,
              !.attempt = 0]

\* a writer attempt of writerNode returned text
writerAttempt(text) ==
    /\ graph.node = "writer" /\ graph.pc = "write"
    /\ graph' = retryAttempt(graph, text)
    /\ UNCHANGED <<sessionVars, maxEditCycles, calls, ops, last, env, storage>>

\* an expand call of writerNode returned text
writerExpand(rawText) ==
    /\ graph.node = "writer" /\ graph.pc = "expand"
    /\ graph' = IF env.writerNode = "part_008"
                THEN expandNew([forgetRetries(graph) EXCEPT !.answer = rawText], rawText)
                ELSE expandOld([forgetRetries(graph) EXCEPT !.answer = rawText], rawText)
    /\ UNCHANGED <<sessionVars, maxEditCycles, calls, ops, last, env, storage>>

\* the summary call of writerNode returned or threw; the node returns its
\* update and the editor runs
writerReturns ==
    /\ graph.node = "writer" /\ graph.pc = "summary"
    /\ graph' = streamed([graph EXCEPT !.node = "editor", !.pc = "none",
                                       !.currentDraft = graph.finalContent,
                                       !.currentPhase = "editing",
                                       !.costs = graph.costs + graph.nodeCosts],
                         writerEvents(graph))
    /\ UNCHANGED <<sessionVars, maxEditCycles, calls, ops, last, env, storage>>

\* editorNode returned a verdict; editorRouter picks the next node
editorNode(editResult) ==
    /\ graph.node = "editor"
    /\ LET approved == editResult.approved
           g == [forgetNode(graph) EXCEPT
                    !.currentEditResult = IF approved THEN "approved" ELSE "rejected",
                    !.overall = editResult.overall,
                    !.editCount = graph.editCount + 1,
                    !.currentPhase = IF approved THEN "continuity" ELSE "writing",
                    !.costs = graph.costs + 1,
                    !.rejects = IF approved THEN graph.rejects ELSE graph.rejects + 1]
           events == <<Event("edit_cycle", graph.currentChapter, graph.editCount + 1)>>
       IN  graph' = IF editorRouter(g) = "writer" THEN streamed(enterWriter(g), events)
                    ELSE streamed([g EXCEPT !.node = "continuity", !.pc = "summary"],
                                  events)
    /\ UNCHANGED <<sessionVars, maxEditCycles, calls, ops, last, env, storage>>

\* continuityNode declaring the book complete after any chapter
continuityDoneEndsEarly(g, newSummary) ==
    LET completedChapter == [number |-> g.currentChapter, content |-> g.currentDraft,
                             wordCount |-> countWords(g.currentDraft),
                             editCount |-> g.editCount, approved |-> TRUE]
        g1 == [forgetNode(g) EXCEPT
                  !.chapters = Append(g.chapters, completedChapter),
                  !.rollingSummary = newSummary,
                  !.previousChapterEnding = sliceEnd(g.currentDraft, EndingChars),
                  !.currentChapter = g.currentChapter + 1,
                  !.currentPhase = "complete",
                  !.costs = g.costs + 1, !.pc = "none"]
    IN  [g1 EXCEPT !.node = chapterRouter(g1)]

\* the end of continuityNode (part_006 73-77, 141-165), then chapterRouter
continuityDone(g, newSummary) ==
    LET completedChapter == [number |-> g.currentChapter, content |-> g.currentDraft,
                             wordCount |-> countWords(g.currentDraft),
                             editCount |-> g.editCount, approved |-> TRUE]
        nextChapter == g.currentChapter + 1
        g1 == [forgetNode(g) EXCEPT
                  !.chapters = Append(g.chapters, completedChapter),
                  !.rollingSummary = newSummary,
                  !.previousChapterEnding = sliceEnd(g.currentDraft, EndingChars),
                  !.currentChapter = nextChapter,
                  !.currentPhase = IF nextChapter <= g.outlineLen THEN "planning"
                                   ELSE "complete",
                  !.humanFeedback = "null",
                  !.costs = g.costs + 1, !.pc = "none"]
    IN  streamed([g1 EXCEPT !.node = chapterRouter(g1)],
                 <<Event("chapter_complete", g.currentChapter, 0)>>)

\* continuityNode with humanReview reaches interrupt() (part_006 102-108):
\* the run is suspended until the caller resumes it with feedback
continuityEnd(g, newSummary) ==
    IF env.humanReview THEN [g EXCEPT !.pc = "review", !.newSummary = newSummary]
    ELSE continuityDone(g, newSummary)

\* the human reviewer rejected (part_006 111-135): the chapter stays the
\* current one, a rejecting currentEditResult carries the reviewer's
\* instructions, and chapterRouter picks the next node
humanRejected(g) ==
    LET g1 == [forgetNode(g) EXCEPT
                  !.currentPhase = "writing", !.currentEditResult = "human",
                  !.humanFeedback = "rejected", !.reviews = g.reviews + 1,
                  !.costs = g.costs + 1, !.pc = "none"]
    IN  [g1 EXCEPT !.node = chapterRouter(g1)]

\* "truncate by sentences" (part_006 61-69): truncated + sentence is counted
\* without the space that joins them, so the last word of truncated and the
\* first word of the sentence count as one
RECURSIVE truncateBySentences(_, _)
truncateBySentences(sentences, truncated) ==
    IF sentences = << >> THEN truncated
    ELSE LET sentence == Head(sentences)
             joined == IF truncated = << >> THEN sentence.w
                       ELSE countWords(truncated) + sentence.w - 1
         IN  IF joined > maxSummaryWords THEN truncated
             ELSE truncateBySentences(Tail(sentences), Append(truncated, sentence))

\* the continuity call returned generatedSummary, a text of one paragraph
\* per sentence
continuityNode(generatedSummary) ==
    /\ graph.node = "continuity" /\ graph.pc = "summary"
    /\ graph' = IF countWords(generatedSummary) > maxSummaryWords
                THEN [graph EXCEPT !.pc = "condense", !.newSummary = generatedSummary]
                ELSE continuityEnd(graph, generatedSummary)
    /\ UNCHANGED <<sessionVars, maxEditCycles, calls, ops, last, env, storage>>

\* the condensation call returned w words, or threw and the summary is cut
\* at the last sentence that fits (part_006 54-70)
continuityCondensed(ok, w) ==
    /\ graph.node = "continuity" /\ graph.pc = "condense"
    /\ ok \/ env.throws
    /\ graph' = continuityEnd(graph, IF ok THEN <<Prose(w)>>
                                     ELSE truncateBySentences(graph.newSummary, << >>))
    /\ UNCHANGED <<sessionVars, maxEditCycles, calls, ops, last, env, storage>>

\* the caller resumes the suspended run: with a rejection, or with an
\* approval or no feedback (longform-ai.ts 181-183)
resume(approved) ==
    /\ graph.node = "continuity" /\ graph.pc = "review"
    /\ approved \/ graph.reviews < env.maxReviews
    /\ graph' = IF approved THEN continuityDone(graph, graph.newSummary)
                ELSE humanRejected(graph)
    /\ UNCHANGED <<sessionVars, maxEditCycles, calls, ops, last, env, storage>>

\* a model call of a node threw and the node does not catch it: the run fails
nodeThrows ==
    /\ env.throws
    /\ \/ graph.node \in {"generate_outline", "planner", "editor"}
       \/ graph.node = "writer" /\ graph.pc \in {"write", "expand"}
       \/ graph.node = "continuity" /\ graph.pc = "summary"
    /\ graph' = [forgetNode(graph) EXCEPT !.node = "failed", !.pc = "none"]
    /\ UNCHANGED <<sessionVars, maxEditCycles, calls, ops, last, env, storage>>

(***************************************************************************)
(* Queries (book-session.ts 660-700)                                       *)
(***************************************************************************)
\* getProgress: costs counts the cost entries, each of one unit of cost, so
\* estimatedRemainingCost is totalCost / chaptersCompleted * remaining with
\* the sign it has in the code
getProgress ==
    LET totalChapters == IF outline.present THEN Len(outline.chapters) ELSE 0
        chaptersCompleted == Cardinality(DOMAIN chapters)
        remaining == totalChapters - chaptersCompleted
    IN  [phase |-> phase, outlineApproved |-> outlineApproved,
         totalChapters |-> totalChapters, chaptersCompleted |-> chaptersCompleted,
         totalCost |-> costs,
         estimatedRemainingCost |->
             IF chaptersCompleted > 0 THEN (costs * remaining) \div chaptersCompleted
             ELSE 0]
\* getChapterStatus(n): chapterStatuses.get(n) ?? 'pending'
getChapterStatus(n) == IF Has(chapterStatuses, n) THEN chapterStatuses[n] ELSE "pending"
\* getChapter(n): chapters.get(n) ?? null
getChapter(n) == IF Has(chapters, n) THEN chapters[n] ELSE "null"

(***************************************************************************)
(* Persistence (book-session.ts 705-752).  The saved string is modelled by *)
(* the value JSON.parse gives back for it.                                 *)
(***************************************************************************)
\* state.id, a uuid
SessionId == "session"
\* the ids a caller may ask for
Ids == {SessionId, "non-existent"}

\* Array.from(map.entries()): the [key, value] pairs of a Map
RECURSIVE entries(_)
entries(map) ==
    IF DOMAIN map = {} THEN << >>
    ELSE LET k == Min(DOMAIN map)
         IN  <<<<k, map[k]>>>> \o entries([x \in (DOMAIN map) \ {k} |-> map[x]])
\* new Map(pairs)
RECURSIVE newMap(_)
newMap(pairs) ==
    IF pairs = << >> THEN EmptyMap
    ELSE LET front == SubSeq(pairs, 1, Len(pairs) - 1)
             pair == pairs[Len(pairs)]
         IN  Put(newMap(front), pair[1], pair[2])

\* a ChapterContent as JSON text holds it
contentJson(c) == [content |-> c.content, wordCount |-> c.wordCount, summary |-> c.summary,
                   editCount |-> c.editCount, approved |-> c.approved]
\* JSON.stringify(serializable): the outline is written out with its chapter
\* plans, objects by value
serializable ==
    [id |-> SessionId,
     outline |-> [isNull |-> ~outline.present,
                  chapters |-> [i \in DOMAIN outline.chapters |-> heap[outline.chapters[i]]]],
     outlineApproved |-> outlineApproved,
     chapters |-> entries([k \in DOMAIN chapters |-> contentJson(chapters[k])]),
     chapterStatuses |-> entries(chapterStatuses),
     rollingSummary |-> rollingSummary,
     previousChapterEnding |-> previousChapterEnding,
     costs |-> costs,
     phase |-> phase]

\* save(storage?): store = storage ?? this.storage
SessionSaved == [type |-> "session_saved", chapter |-> 0]
save(given) ==
    /\ ops < env.maxOps
    /\ storage' = IF given
                  THEN [storage EXCEPT !.given = Put(storage.given, SessionId, serializable)]
                  ELSE [storage EXCEPT !.own = Put(storage.own, SessionId, serializable)]
    /\ ops' = ops + 1
    /\ last' = [op |-> "save", outcome |-> SessionId, events |-> <<SessionSaved>>]
    /\ UNCHANGED <<sessionVars, maxEditCycles, calls, env, graph>>

\* the session that restore builds from parsed: the caller goes on with it,
\* and its this.storage is a new MemorySessionStorage
restoredSessionForgetsApproval(parsed) ==
    /\ outline' = [present |-> ~parsed.outline.isNull,
                   chapters |-> [i \in DOMAIN parsed.outline.chapters |-> i]]
    /\ heap' = [o \in ObjIds |-> IF o \in DOMAIN parsed.outline.chapters
                                  THEN parsed.outline.chapters[o] ELSE NullPlan]
    /\ outlineApproved' = FALSE
    /\ chapters' = newMap([i \in DOMAIN parsed.chapters |->
                             <<parsed.chapters[i][1],
                               [plan |-> 0] @@ parsed.chapters[i][2]>>])
    /\ chapterStatuses' = newMap(parsed.chapterStatuses)
    /\ rollingSummary' = parsed.rollingSummary
    /\ previousChapterEnding' = parsed.previousChapterEnding
    /\ costs' = parsed.costs
    /\ phase' = parsed.phase
    /\ storage' = [storage EXCEPT !.own = EmptyMap]
restoredSession(parsed) ==
    /\ outline' = [present |-> ~parsed.outline.isNull,
                   chapters |-> [i \in DOMAIN parsed.outline.chapters |-> i]]
    /\ heap' = [o \in ObjIds |-> IF o \in DOMAIN parsed.outline.chapters
                                  THEN parsed.outline.chapters[o] ELSE NullPlan]
    /\ outlineApproved' = parsed.outlineApproved
    /\ chapters' = newMap([i \in DOMAIN parsed.chapters |->
                             <<parsed.chapters[i][1],
                               [plan |-> 0] @@ parsed.chapters[i][2]>>])
    /\ chapterStatuses' = newMap(parsed.chapterStatuses)
    /\ rollingSummary' = parsed.rollingSummary
    /\ previousChapterEnding' = parsed.previousChapterEnding
    /\ costs' = parsed.costs
    /\ phase' = parsed.phase
    /\ storage' = [storage EXCEPT !.own = EmptyMap]

\* BookSession.restore(id, config, storage?): store = storage ?? new
\* MemorySessionStorage().  The caller has no call of the old session in
\* flight.
restore(id, given) ==
    /\ ops < env.maxOps
    /\ \A s \in Slots : calls[s] = Idle
    /\ LET store == IF given THEN storage.given ELSE EmptyMap
       IN  IF ~Has(store, id)
           THEN /\ last' = [op |-> "restore", outcome |-> "not found", events |-> << >>]
                /\ UNCHANGED <<sessionVars, storage>>
           ELSE /\ last' = [op |-> "restore", outcome |-> "session", events |-> << >>]
                /\ restoredSession(store[id])
    /\ ops' = ops + 1
    /\ UNCHANGED <<maxEditCycles, calls, env, graph>>

(***************************************************************************)
(* export (book-session.ts 764-800)                                        *)
(***************************************************************************)
\* "collect completed chapters in order": the contents stored under the
\* numbers of the outline's chapters, from chapter i on
RECURSIVE collect(_)
collect(i) ==
    IF i > Len(outline.chapters) THEN << >>
    ELSE LET n == heap[outline.chapters[i]].number
         IN  IF Has(chapters, n)
             THEN <<[number |-> n, content |-> chapters[n].content,
                     wordCount |-> chapters[n].wordCount]>> \o collect(i + 1)
             ELSE collect(i + 1)
\* chapters.reduce((sum, ch) => sum + ch.wordCount, 0)
RECURSIVE sumWordCounts(_)
sumWordCounts(chs) ==
    IF chs = << >> THEN 0 ELSE Head(chs).wordCount + sumWordCounts(Tail(chs))
export ==
    /\ last' = IF ~outline.present
               THEN [op |-> "export", outcome |-> "error", events |-> << >>]
               ELSE [op |-> "export",
                     outcome |-> [chapters |-> collect(1),
                                  totalWords |-> sumWordCounts(collect(1))],
                     events |-> << >>]
    /\ UNCHANGED <<sessionVars, maxEditCycles, calls, ops, env, storage, graph>>

(***************************************************************************)
(* TokenBudget (context/token-budget.ts).  A content is a sequence of      *)
(* characters, an item a ContextItem [key, content, priority, required].   *)
(***************************************************************************)
\* estimateTokens: Math.ceil(text.length / 4)
estimateTokens(text) == (Len(text) + 3) \div 4

\* [...items].sort((a, b) => b.priority - a.priority): Array.prototype.sort
\* is stable, so an item goes behind every item of its priority or higher
\* that precedes it in items
RECURSIVE sortByPriority(_)
sortByPriority(items) ==
    IF items = << >> THEN << >>
    ELSE LET item == items[Len(items)]
             sorted == sortByPriority(SubSeq(items, 1, Len(items) - 1))
             k == Cardinality({ i \in DOMAIN sorted : sorted[i].priority >= item.priority })
         IN  SubSeq(sorted, 1, k) \o <<item>> \o SubSeq(sorted, k + 1, Len(sorted))

\* parts.join('\n\n')
RECURSIVE join(_)
join(parts) ==
    IF parts = << >> THEN << >>
    ELSE IF Len(parts) = 1 THEN parts[1]
    ELSE parts[1] \o <<"\n", "\n">> \o join(Tail(parts))

\* "First pass: include required items"
RECURSIVE requiredPass(_, _)
requiredPass(sorted, r) ==
    IF sorted = << >> THEN r
    ELSE LET item == Head(sorted)
         IN  requiredPass(Tail(sorted),
                 IF item.required
                 THEN [r EXCEPT !.parts = Append(r.parts, item.content),
                                !.included = Append(r.included, item.key),
                                !.totalTokens = r.totalTokens + estimateTokens(item.content)]
                 ELSE r)

\* "Second pass: include optional items by priority"
RECURSIVE optionalPass(_, _, _)
optionalPass(sorted, budget, r) ==
    IF sorted = << >> THEN r
    ELSE LET item == Head(sorted)
             tokens == estimateTokens(item.content)
         IN  optionalPass(Tail(sorted), budget,
                 IF item.required THEN r
                 ELSE IF r.totalTokens + tokens <= budget
                      THEN [r EXCEPT !.parts = Append(r.parts, item.content),
                                     !.included = Append(r.included, item.key),
                                     !.totalTokens = r.totalTokens + tokens]
                      ELSE [r EXCEPT !.dropped = Append(r.dropped, item.key)])

\* the locals of buildContext before the first pass
NoParts == [included |-> << >>, dropped |-> << >>, parts |-> << >>, totalTokens |-> 0]
\* the AssembledContext that buildContext returns
AssembledContext(r) ==
    [text |-> join(r.parts), totalTokens |-> r.totalTokens,
     includedItems |-> r.included, droppedItems |-> r.dropped]

\* a faulty buildContext: a required item that does not fit is dropped
buildContextWithinBudget(items, budget) ==
    AssembledContext(optionalPass(
        [i \in DOMAIN items |-> [sortByPriority(items)[i] EXCEPT !.required = FALSE]],
        budget, NoParts))

\* a faulty buildContext: the items are taken in input order
buildContextUnsorted(items, budget) ==
    AssembledContext(optionalPass(items, budget, requiredPass(items, NoParts)))

\* TokenBudget.buildContext
buildContext(items, budget) ==
    LET sorted == sortByPriority(items)
    IN  AssembledContext(optionalPass(sorted, budget, requiredPass(sorted, NoParts)))

\* buildContext is called with the caller's items and budget, and returns
buildContextCall ==
    /\ last = NoCall
    /\ last' = [op |-> "buildContext", outcome |-> buildContext(env.items, env.budget),
                events |-> << >>]
    /\ UNCHANGED <<sessionVars, maxEditCycles, calls, ops, env, storage, graph>>

\* detectRefusal and stripRefusalContent are called with the caller's text,
\* and return
detectRefusalCall ==
    /\ last = NoCall
    /\ last' = [op |-> "detectRefusal", outcome |-> detectRefusal(env.text),
                events |-> << >>]
    /\ UNCHANGED <<sessionVars, maxEditCycles, calls, ops, env, storage, graph>>
stripRefusalContentCall ==
    /\ last = NoCall
    /\ last' = [op |-> "stripRefusalContent", outcome |-> stripRefusalContent(env.text),
                events |-> << >>]
    /\ UNCHANGED <<sessionVars, maxEditCycles, calls, ops, env, storage, graph>>

(***************************************************************************)
(* What the model collaborator answers                                     *)
(***************************************************************************)
\* a chapter of full length
FullText == <<Prose(900)>>
\* a refusal with nothing to salvage
RefusedText == <<RefusalPara, OfferPara>>
\* a refusal followed by w words of prose
Salvageable(w) == <<RefusalPara, Prose(w)>>

\* a chapter too short for its target
ShortText == <<Prose(300)>>
\* longer, and still too short
LongerText == <<Prose(600)>>
\* a refusal whose salvage begins with prose and then refuses again
RelapsingText == <<RefusalPara, Prose(20), LateRefusalPara, Prose(300)>>
\* "Below is the expanded chapter." and then the chapter
AnnouncedText == <<ExpandMetaPara, Prose(880)>>

\* what every environment below shares: the model answers with a chapter of
\* full length, any model call may throw, a continuity model is configured,
\* and the graph is not run
Plain == [writeTexts |-> {FullText}, expandTexts |-> {FullText}, rewriteTexts |-> {FullText},
          outlineLens |-> 1..MaxOutline, throws |-> TRUE, continuity |-> TRUE,
          summaries |-> {<<Prose(1500)>>, <<Prose(1500), Prose(1000)>>},
          condensedWords |-> {1800},
          verdicts |-> {EditResult(TRUE, 8), EditResult(FALSE, 5)},
          targets |-> {1000},
          inflight |-> 1, maxOps |-> 0, graphRuns |-> 0, writerNode |-> "none",
          items |-> << >>, budget |-> 0, text |-> << >>, script |-> << >>,
          humanReview |-> FALSE, maxReviews |-> 0, stream |-> FALSE]
\* a caller that awaits every call before it makes the next one
Sequential == [Plain EXCEPT !.maxOps = MaxOps]
\* a caller that makes a call while another is suspended on a model call
Concurrent == [Plain EXCEPT !.inflight = MaxInFlight, !.maxOps = MaxOpsConcurrent]
\* a caller that generates an outline and edits it in every way
Editing == [Plain EXCEPT !.maxOps = MaxOutlineOps, !.throws = FALSE]

InitSession ==
    /\ outline = NoOutline
    /\ heap = [o \in ObjIds |-> NullPlan]
    /\ outlineApproved = FALSE
    /\ chapters = EmptyMap
    /\ chapterStatuses = EmptyMap
    /\ rollingSummary = << >>
    /\ previousChapterEnding = << >>
    /\ storage = NoStorage
    /\ costs = 0
    /\ phase = "idle"
    /\ calls = [s \in Slots |-> Idle]
    /\ ops = 0
    /\ last = NoCall
    /\ graph = NoGraph

Init ==
    /\ InitSession
    /\ maxEditCycles = 1
    /\ env = Sequential

InitConcurrent ==
    /\ InitSession
    /\ maxEditCycles = 1
    /\ env = Concurrent

\* one chapter, and a model that answers in every way the pipeline tells apart
Chapter == [Plain EXCEPT
    !.writeTexts = {FullText, ShortText, RelapsingText,
                    Salvageable(40), Salvageable(80), Salvageable(150), Salvageable(60)},
    !.expandTexts = {FullText, ShortText, LongerText, RefusedText, AnnouncedText,
                     Salvageable(150), Salvageable(700)},
    !.rewriteTexts = {FullText, ShortText, RefusedText},
    !.outlineLens = {1}]

\* a chapter generated by a session, or by a run of the graph built with
\* either writerNode
InitChapter ==
    /\ InitSession
    /\ maxEditCycles \in 0..MaxEditCycles
    /\ env \in { [Chapter EXCEPT !.maxOps = MaxChapterOps],
                 [Chapter EXCEPT !.graphRuns = 1, !.writerNode = "writer.ts"],
                 [Chapter EXCEPT !.graphRuns = 1, !.writerNode = "part_008"] }

\* a model that writes, refuses, falls short and throws, and one chapter
Answering == [Plain EXCEPT
    !.writeTexts = {FullText, ShortText, RefusedText, Salvageable(150)},
    !.expandTexts = {ShortText, LongerText, RefusedText},
    !.rewriteTexts = {ShortText, RefusedText},
    !.outlineLens = {1},
    !.maxOps = MaxLiveOps]

InitLive ==
    /\ InitSession
    /\ maxEditCycles = 1
    /\ env = Answering

\* an editor whose verdict and overall score are independent of each other,
\* and outlines of one and two chapters
Scoring == [Plain EXCEPT
    !.writeTexts = {FullText, RefusedText},
    !.expandTexts = {FullText, ShortText},
    !.verdicts = { EditResult(a, o) : a \in BOOLEAN, o \in {PassScore - 1, PassScore} }]

InitScoring ==
    /\ InitSession
    /\ maxEditCycles \in 0..MaxEditCycles
    /\ env \in { [Scoring EXCEPT !.maxOps = MaxChapterOps],
                 [Scoring EXCEPT !.graphRuns = 1, !.writerNode = "writer.ts"],
                 [Scoring EXCEPT !.graphRuns = 1, !.writerNode = "part_008"] }

InitOutline ==
    /\ InitSession
    /\ maxEditCycles = 1
    /\ env = Editing

\* a chapter a little short of 500 words
BriefText == <<Prose(450)>>
\* chapters of 1000 words to write, a model that writes them in full or
\* falls short, summaries and condensed summaries above and below 2,000
\* words; the long summary has sentences of 1000, 1001 and 499 words
Running == [Plain EXCEPT
    !.writeTexts = {FullText, ShortText},
    !.expandTexts = {FullText, ShortText},
    !.rewriteTexts = {FullText, ShortText},
    !.targets = {1000},
    !.summaries = {<<Prose(1500)>>, <<Prose(1000), Prose(1001), Prose(499)>>},
    !.condensedWords = {1800, 2500},
    !.maxOps = MaxRunOps]

\* one chapter of 500 or of 1000 words to write, and a model whose texts
\* have 300, 450 and 900 words
Words == [Plain EXCEPT
    !.writeTexts = {FullText, BriefText, ShortText},
    !.expandTexts = {FullText, BriefText, ShortText},
    !.rewriteTexts = {FullText, ShortText},
    !.targets = {500, 1000},
    !.outlineLens = {1}]

InitWords ==
    /\ InitSession
    /\ maxEditCycles \in 1..MaxEditCycles
    /\ env \in { [Words EXCEPT !.maxOps = MaxChapterOps],
                 [Words EXCEPT !.graphRuns = 1, !.writerNode = "writer.ts"],
                 [Words EXCEPT !.graphRuns = 1, !.writerNode = "part_008"] }

\* a chapter with a paragraph in the middle that refuses to go on, and a
\* longer one
MidRefusalText == <<Prose(900), LateRefusalPara, Prose(100)>>
LongMidRefusalText == <<Prose(1900), LateRefusalPara, Prose(200)>>
\* one chapter, and a model that may refuse in the middle of any answer
Relapsing == [Plain EXCEPT
    !.writeTexts = {FullText, ShortText, MidRefusalText},
    !.expandTexts = {FullText, LongMidRefusalText},
    !.rewriteTexts = {FullText, MidRefusalText},
    !.outlineLens = {1}]

InitScrub ==
    /\ InitSession
    /\ maxEditCycles = 1
    /\ env \in { [Relapsing EXCEPT !.maxOps = MaxRunOps],
                 [Relapsing EXCEPT !.graphRuns = 1, !.writerNode = "writer.ts"],
                 [Relapsing EXCEPT !.graphRuns = 1, !.writerNode = "part_008"] }

\* contents of 0, 1 and 2 tokens
Contents == { << >>, <<"a">>, <<"b", "b", "b", "b", "b">> }
\* the item lists of up to MaxItems items; the key of an item is its place
\* in the list, so keys are distinct
ItemLists ==
    UNION { [1..n -> [content : Contents, priority : {1, 2}, required : BOOLEAN]] :
              n \in 0..MaxItems }
Keyed(list) == [i \in DOMAIN list |->
                  [key |-> i, content |-> list[i].content,
                   priority |-> list[i].priority, required |-> list[i].required]]

\* a caller of buildContext with any items and any budget up to MaxBudget
InitBudget ==
    /\ InitSession
    /\ maxEditCycles = 1
    /\ env \in { [Plain EXCEPT !.items = Keyed(list), !.budget = b] :
                    list \in ItemLists, b \in 0..MaxBudget }

\* the paragraphs a text is made of: prose short and longer than the head,
\* refusals, a single apology, an offer, an option of a list, whitespace
ParaKinds == {Prose(40), Prose(90), RefusalPara, LateRefusalPara, ApologyPara,
              OfferPara, OptionPara, BlankPara}
\* the blank-line runs between two paragraphs: "\n\n" or "\n\n\n"
Gaps == {2, 3}
\* the texts of up to MaxParas paragraphs, any spacing between them
Texts ==
    UNION { { [i \in 1..n |-> Spaced(ps[i], IF i = 1 THEN 2 ELSE gs[i])] :
                ps \in [1..n -> ParaKinds], gs \in [1..n -> Gaps] } :
            n \in 0..MaxParas }

\* a caller of detectRefusal or stripRefusalContent with any text
InitText ==
    /\ InitSession
    /\ maxEditCycles = 1
    /\ env \in { [Plain EXCEPT !.text = t] : t \in Texts }

InitExport ==
    /\ InitSession
    /\ maxEditCycles = 1
    /\ env = [Plain EXCEPT !.writeTexts = {FullText, ShortText}, !.maxOps = MaxRunOps]

\* a caller that makes up to MaxPersistOps calls
Persisting == [Plain EXCEPT !.writeTexts = {FullText, ShortText}, !.outlineLens = {1},
                            !.maxOps = MaxPersistOps]
InitPersist ==
    /\ InitSession
    /\ maxEditCycles = 1
    /\ env = Persisting

\* a session with or without a continuity model, or a run of the graph
\* built with either writerNode
InitRun ==
    /\ InitSession
    /\ maxEditCycles = 1
    /\ env \in { [Running EXCEPT !.continuity = c] : c \in BOOLEAN }
          \cup { [Running EXCEPT !.maxOps = 0, !.graphRuns = 1, !.writerNode = w] :
                    w \in {"writer.ts", "part_008"} }

OutlineStep ==
    \/ \E s \in Slots : generateOutlineCall(s)
    \/ \E s \in Slots : regenerateOutlineCall(s)
    \/ \E s \in Slots, n \in env.outlineLens, tw \in env.targets : outlineReturns(s, n, tw)
    \/ \E s \in Slots : outlineThrows(s)
    \/ \E changes \in FewChanges : updateOutline(changes)
    \/ approveOutline

CallStep ==
    \/ \E s \in Slots, n \in Numbers \cup {Undefined} : generateChapterCall(s, n)
    \/ \E s \in Slots, n \in Numbers : rewriteChapterCall(s, n)
    \/ \E s \in Slots, n \in Numbers, tw \in {Undefined, 2000} : expandChapterCall(s, n, tw)
    \/ \E s \in Slots : generateAllRemainingCall(s)

\* the model call that the call in slot s awaits returns or throws
Answers(s) ==
    \/ callThrows(s)
    \/ continuityThrows(s)
    \/ condenseThrows(s)
    \/ planReturns(s)
    \/ \E t \in env.writeTexts : writeReturns(s, t)
    \/ \E t \in env.expandTexts : expandReturns(s, t)
    \/ \E r \in env.verdicts : editReturns(s, r)
    \/ \E t \in env.rewriteTexts : rewriteReturns(s, t)
    \/ \E ok \in BOOLEAN : summaryEnds(s, ok)
    \/ \E t \in env.summaries : continuityReturns(s, t)
    \/ \E w \in env.condensedWords : condenseReturns(s, w)

PipelineStep ==
    \/ \E s \in Slots : Answers(s)
    \/ \E s \in Slots : allResumes(s)
    \/ \E s \in Slots : allAbandoned(s)

Next == OutlineStep \/ CallStep \/ PipelineStep

GraphStep ==
    \/ invoke
    \/ \E n \in env.outlineLens, tw \in env.targets : outlineNode(n, tw)
    \/ plannerNode
    \/ \E t \in env.writeTexts : writerAttempt(t)
    \/ \E t \in env.expandTexts : writerExpand(t)
    \/ writerReturns
    \/ \E r \in env.verdicts : editorNode(r)
    \/ \E t \in env.summaries : continuityNode(t)
    \/ \E ok \in BOOLEAN, w \in env.condensedWords : continuityCondensed(ok, w)
    \/ nodeThrows

NextChapter == Next \/ GraphStep

Spec == Init /\ [][Next]_vars
SpecConcurrent == InitConcurrent /\ [][Next]_vars
SpecChapter == InitChapter /\ [][NextChapter]_vars
SpecScoring == InitScoring /\ [][NextChapter]_vars

\* the outline phase alone: generation, then structural edits of every shape
NextOutline ==
    \/ \E s \in Slots : generateOutlineCall(s)
    \/ \E s \in Slots, n \in env.outlineLens, tw \in env.targets : outlineReturns(s, n, tw)
    \/ \E changes \in Changes : updateOutline(changes)

SpecOutline == InitOutline /\ [][NextOutline]_vars

\* a run of the graph in which every model call returns: outlines of up
\* to MaxOutline chapters, drafts and expansions long enough or too short,
\* verdicts that approve or reject, summaries short enough or to be condensed
Book == [Plain EXCEPT
    !.writeTexts = {FullText, ShortText},
    !.expandTexts = {FullText, ShortText},
    !.summaries = {<<Prose(1500)>>, <<Prose(2500)>>},
    !.throws = FALSE,
    !.graphRuns = 1]

InitBook ==
    /\ InitSession
    /\ maxEditCycles \in 0..MaxEditCycles
    /\ env \in { [Book EXCEPT !.writerNode = w] : w \in {"writer.ts", "part_008"} }

\* the nodes of the graph when no model call throws
NextBook ==
    \/ invoke
    \/ \E n \in env.outlineLens, tw \in env.targets : outlineNode(n, tw)
    \/ plannerNode
    \/ \E t \in env.writeTexts : writerAttempt(t)
    \/ \E t \in env.expandTexts : writerExpand(t)
    \/ writerReturns
    \/ \E r \in env.verdicts : editorNode(r)
    \/ \E t \in env.summaries : continuityNode(t)
    \/ \E w \in env.condensedWords : continuityCondensed(TRUE, w)

\* every call returns and the graph runs the node its edges name next.  The
\* recursionLimit that generate() passes to graph.stream (longform-ai.ts
\* 89-97) belongs to the caller of the graph and is not part of this run
SpecBook == InitBook /\ [][NextBook]_vars /\ WF_vars(NextBook)

\* the k-th draft that a writer model returns for a chapter: long enough
\* for the target, and different from every other draft
Draft(k) == <<Prose(900 + 10 * k)>>
\* a session and a run of the graph side by side, for one chapter each, with
\* the same maxEditCycles, the same editor verdicts (the k-th editor call of
\* either gets script[k]) and the same drafts (the k-th writer call of
\* either gets Draft(k)); no call throws
Pair == [Plain EXCEPT
    !.outlineLens = {1},
    !.summaries = {<<Prose(1500)>>},
    !.throws = FALSE,
    !.maxOps = MaxChapterOps,
    !.graphRuns = 1]

InitPair ==
    /\ InitSession
    /\ maxEditCycles \in 0..MaxEditCycles
    /\ env \in { [Pair EXCEPT !.writerNode = w, !.script = v] :
                    w \in {"writer.ts", "part_008"},
                    v \in [1..MaxEditCycles -> Plain.verdicts] }

\* the verdict of the k-th editor call
Scripted(k) == { env.script[i] : i \in {k} \cap DOMAIN env.script }

NextPair ==
    \/ \E s \in Slots : generateOutlineCall(s)
    \/ \E s \in Slots, n \in env.outlineLens, tw \in env.targets : outlineReturns(s, n, tw)
    \/ approveOutline
    \/ \E s \in Slots : generateChapterCall(s, Undefined)
    \/ \E s \in Slots : planReturns(s)
    \/ \E s \in Slots : writeReturns(s, Draft(1))
    \/ \E s \in Slots : \E r \in Scripted(calls[s].edits + 1) : editReturns(s, r)
    \/ \E s \in Slots : rewriteReturns(s, Draft(calls[s].rejects + 1))
    \/ \E s \in Slots : summaryEnds(s, TRUE)
    \/ \E s \in Slots, t \in env.summaries : continuityReturns(s, t)
    \/ invoke
    \/ \E n \in env.outlineLens, tw \in env.targets : outlineNode(n, tw)
    \/ plannerNode
    \/ writerAttempt(Draft(graph.writerRuns))
    \/ writerReturns
    \/ \E r \in Scripted(graph.editCount + 1) : editorNode(r)
    \/ \E t \in env.summaries : continuityNode(t)

SpecPair == InitPair /\ [][NextPair]_vars

\* a run of the graph with human review: every model call returns, and
\* the reviewer rejects up to MaxReviews times
Reviewing == [Plain EXCEPT
    !.summaries = {<<Prose(1500)>>},
    !.throws = FALSE,
    !.graphRuns = 1,
    !.humanReview = TRUE,
    !.maxReviews = MaxReviews]

InitReview ==
    /\ InitSession
    /\ maxEditCycles \in 1..MaxEditCycles
    /\ env \in { [Reviewing EXCEPT !.writerNode = w] : w \in {"writer.ts", "part_008"} }

NextReview ==
    \/ invoke
    \/ \E n \in env.outlineLens, tw \in env.targets : outlineNode(n, tw)
    \/ plannerNode
    \/ \E t \in env.writeTexts : writerAttempt(t)
    \/ writerReturns
    \/ \E r \in env.verdicts : editorNode(r)
    \/ \E t \in env.summaries : continuityNode(t)
    \/ \E approved \in BOOLEAN : resume(approved)

SpecReview == InitReview /\ [][NextReview]_vars

\* a run of the graph under LongFormAI.generate, whose consumer is
\* observed: every model call returns
Streaming == [Plain EXCEPT
    !.writeTexts = {FullText, ShortText},
    !.expandTexts = {FullText, ShortText},
    !.summaries = {<<Prose(1500)>>},
    !.throws = FALSE,
    !.graphRuns = 1,
    !.stream = TRUE]

InitStream ==
    /\ InitSession
    /\ maxEditCycles \in 1..MaxEditCycles
    /\ env \in { [Streaming EXCEPT !.writerNode = w] : w \in {"writer.ts", "part_008"} }

NextStream ==
    \/ invoke
    \/ \E n \in env.outlineLens, tw \in env.targets : outlineNode(n, tw)
    \/ plannerNode
    \/ \E t \in env.writeTexts : writerAttempt(t)
    \/ \E t \in env.expandTexts : writerExpand(t)
    \/ writerReturns
    \/ \E r \in env.verdicts : editorNode(r)
    \/ \E t \in env.summaries : continuityNode(t)

SpecStream == InitStream /\ [][NextStream]_vars

\* the chapter phase of a session, and the graph
NextRun ==
    \/ \E s \in Slots : generateOutlineCall(s)
    \/ \E s \in Slots, n \in env.outlineLens, tw \in env.targets : outlineReturns(s, n, tw)
    \/ approveOutline
    \/ CallStep
    \/ PipelineStep
    \/ GraphStep

SpecRun == InitRun /\ [][NextRun]_vars
SpecWords == InitWords /\ [][NextRun]_vars
SpecScrub == InitScrub /\ [][NextRun]_vars

\* a caller that generates some chapters and then consumes the sequence of
\* generateAllRemaining to the end, doing nothing else meanwhile
NextSequence ==
    \/ \E s \in Slots : generateOutlineCall(s)
    \/ \E s \in Slots, n \in env.outlineLens, tw \in env.targets : outlineReturns(s, n, tw)
    \/ approveOutline
    \/ /\ \A s \in Slots : ~calls[s].inAll
       /\ \E s \in Slots, n \in Numbers : generateChapterCall(s, n)
    \/ \E s \in Slots : generateAllRemainingCall(s)
    \/ \E s \in Slots : Answers(s)
    \/ \E s \in Slots : allResumes(s)
SpecSequence == Init /\ [][NextSequence]_vars

\* a caller that saves the session at any moment, with or without a storage
\* object of its own, and restores it
NextPersist ==
    \/ \E s \in Slots : generateOutlineCall(s)
    \/ \E s \in Slots, n \in env.outlineLens, tw \in env.targets : outlineReturns(s, n, tw)
    \/ approveOutline
    \/ \E s \in Slots, n \in Numbers \cup {Undefined} : generateChapterCall(s, n)
    \/ \E s \in Slots : Answers(s)
    \/ \E given \in BOOLEAN : save(given)
    \/ \E id \in Ids, given \in BOOLEAN : restore(id, given)
SpecPersist == InitPersist /\ [][NextPersist]_vars

\* a caller that exports the book at any moment
NextExport ==
    \/ \E s \in Slots : generateOutlineCall(s)
    \/ \E s \in Slots, n \in env.outlineLens, tw \in env.targets : outlineReturns(s, n, tw)
    \/ approveOutline
    \/ CallStep
    \/ PipelineStep
    \/ export
SpecExport == InitExport /\ [][NextExport]_vars

NextBudget == buildContextCall
SpecBudget == InitBudget /\ [][NextBudget]_vars

NextText == detectRefusalCall \/ stripRefusalContentCall
SpecText == InitText /\ [][NextText]_vars

\* the writer, expand and edit calls one invocation has made
CallsMade(c) == c.writerCalls + c.expandCalls + c.edits
Counted == \A s \in Slots : CallsMade(calls[s]) < MaxModelCalls

\* chapters generated one call at a time, every model call answered in the
\* end.  The calls of an invocation are counted up to MaxModelCalls, which
\* is more than generateChapter makes with maxEditCycles = 1.
NextLive ==
    \/ \E s \in Slots : generateOutlineCall(s)
    \/ \E s \in Slots, n \in env.outlineLens, tw \in env.targets : outlineReturns(s, n, tw)
    \/ approveOutline
    \/ \E s \in Slots, n \in Numbers \cup {Undefined} : generateChapterCall(s, n)
    \/ \E s \in Slots : Counted /\ Answers(s)

SpecLive ==
    /\ InitLive
    /\ [][NextLive]_vars
    /\ \A s \in Slots : WF_vars(Counted /\ Answers(s))

(***************************************************************************)
(* C1: the approval gate                                                   *)
(***************************************************************************)
\* a step in which the caller calls one of the chapter operations: the call
\* is rejected at once, or it occupies a slot
ChapterOpCalled ==
    /\ ops' = ops + 1
    /\ \/ last'.op \in ChapterOps
       \/ \E s \in Slots : calls[s].op = "idle" /\ calls'[s].op \in ChapterOps

\* C1: while the outline is not approved, a call of generateChapter,
\* rewriteChapter, expandChapter or generateAllRemaining fails with an error,
\* starts no model call, and leaves the chapters, the chapter statuses, the
\* rolling summary and the cost ledger as they were.
C1_UnapprovedOutlineRejectsChapterOps ==
    [][(~outlineApproved /\ ChapterOpCalled)
          => /\ last'.outcome = "error"
             /\ calls' = calls
             /\ UNCHANGED <<chapters, chapterStatuses, rollingSummary, costs>>]_vars

(***************************************************************************)
(* C2: chapter numbers after outline edits                                 *)
(***************************************************************************)
\* the chapter numbers of the outline, in list order
outlineNumbers == [i \in DOMAIN outline.chapters |-> heap[outline.chapters[i]].number]

\* C2: after any sequence of updateOutline calls the outline's chapter
\* numbers are 1..N in list order, without gaps or duplicates.
C2_ChapterNumbersContiguous ==
    \A i \in DOMAIN outline.chapters : outlineNumbers[i] = i

(***************************************************************************)
(* C3: one chapter at a time                                               *)
(***************************************************************************)
Generating == { n \in DOMAIN chapterStatuses : chapterStatuses[n] = "generating" }

\* C3: whatever chapter operations the caller interleaves, at most one
\* chapter has status 'generating'.
C3_AtMostOneChapterGenerating == Cardinality(Generating) <= 1

(***************************************************************************)
(* The loops of one chapter: refusal retries, expansion, edit cycles       *)
(***************************************************************************)
isRefusal(t) == detectRefusal(t).isRefusal
salvage(t) == detectRefusal(t).cleanedText
AllRefused(h) == \A i \in DOMAIN h : isRefusal(h[i])
\* the attempts whose salvage re-classifies as no refusal
Qualifying(h) == { i \in DOMAIN h : isRefusal(h[i]) /\ ~isRefusal(salvage(h[i])) }
MaxOf(S) == CHOOSE x \in S : \A y \in S : y <= x
HighestCount(h) == MaxOf({ countWords(salvage(h[i])) : i \in Qualifying(h) } \cup {0})

\* the refusal retries in progress or just ended, in a session call or in
\* the graph's writer node
Retries ==
    { [hist |-> calls[s].hist, bestText |-> calls[s].bestText,
       bestWordCount |-> calls[s].bestWordCount, given |-> calls[s].given] : s \in Slots }
    \cup { [hist |-> graph.hist, bestText |-> graph.bestCleanedContent,
            bestWordCount |-> graph.bestCleanedWordCount, given |-> graph.given] }

\* the expand loops in progress or just ended
Loops ==
    { [track |-> calls[s].track, given |-> calls[s].given, returned |-> calls[s].returned,
       loopDone |-> calls[s].loopDone, answer |-> calls[s].answer,
       attempts |-> calls[s].attempts] : s \in Slots }
    \cup { [track |-> graph.track, given |-> graph.given, returned |-> graph.returned,
            loopDone |-> graph.loopDone, answer |-> graph.answer,
            attempts |-> graph.expandAttempts] }

GeneratingCalls == { calls[s] : s \in { x \in Slots : calls[x].op = "generateChapter" } }

\* C4 as claimed: one chapter generation makes at most 4 writer calls in the
\* refusal retries and at most 3 expand calls in total, rewrites after a
\* rejection included.
C4_FourWriterCallsThreeExpandCallsInTotal ==
    /\ \A c \in GeneratingCalls :
          c.writerCalls <= maxRefusalRetries + 1 /\ c.expandCalls <= maxAttempts
    /\ graph.writerCalls <= maxRefusalRetries + 1
    /\ graph.expandCalls <= maxExpandAttempts

\* C4, amended: one run of the refusal retries makes at most 4 writer calls
\* and one invocation of the expand loop at most 3 expand calls.  A session
\* runs the retries once per chapter generation and the expand loop once
\* more after every rejected edit cycle; the graph runs its writer node, both
\* loops, once more after every rejection routed back to it.
C4_CallsBoundedPerLoop ==
    /\ \A c \in GeneratingCalls :
          /\ c.writerCalls <= maxRefusalRetries + 1
          /\ c.attempts <= maxAttempts
          /\ c.expandCalls <= maxAttempts * (1 + c.rejects)
          /\ c.rejects <= maxEditCycles
    /\ graph.expandAttempts <= maxExpandAttempts
    /\ graph.writerCalls <= (maxRefusalRetries + 1) * graph.writerRuns
    /\ graph.expandCalls <= maxExpandAttempts * graph.writerRuns
    /\ graph.writerRuns <= 1 + graph.rejects
    /\ graph.writerRuns <= IF maxEditCycles = 0 THEN 1 ELSE maxEditCycles

\* four refused writer attempts, and every expand loop of two rejected edit
\* cycles run to its last attempt
C4_Witness ==
    \E c \in GeneratingCalls :
        c.writerCalls = maxRefusalRetries + 1 /\ c.rejects = 2
        /\ c.expandCalls = maxAttempts * 3

NonDecreasing(q) == \A i \in DOMAIN q : \A j \in DOMAIN q : i <= j => q[i] <= q[j]

\* C5: provided every model call eventually returns or throws, every
\* generateChapter invocation eventually finishes, by returning or throwing,
\* whatever texts, refusals and verdicts the model produces.
C5_GenerateChapterFinishes ==
    \A s \in Slots : (calls[s].op = "generateChapter") ~> (calls[s].op = "idle")

\* a chapter that went through four refusals, three expand attempts, a
\* rejection, a rewrite and three more expand attempts, and was stored
C5_Witness ==
    /\ \A s \in Slots : calls[s].op = "idle"
    /\ Has(chapters, 1) /\ chapters[1].editCount = 1
    /\ costs >= 16

\* C6: the expand loop never regresses: the word count of the current best
\* never decreases from one attempt to the next, and the text the loop
\* returns has at least as many words as the text it was given.
C6_ExpandLoopNeverRegresses ==
    \A l \in Loops :
        /\ NonDecreasing(l.track)
        /\ l.loopDone => countWords(l.returned) >= countWords(l.given)

\* a loop that grew its text, then got a shorter answer and returned
C6_Witness ==
    \E l \in Loops :
        /\ l.loopDone /\ Len(l.track) >= 3
        /\ countWords(l.returned) > countWords(l.given)
        /\ l.answer # << >> /\ countWords(l.answer) < countWords(l.returned)

\* the candidate an expand answer yields, in the session and in the graph
candidate(t) == IF isRefusal(t) THEN salvage(t) ELSE stripExpandPreamble(t)
candidateNode(t) ==
    IF isRefusal(t) THEN salvage(t)
    ELSE IF env.writerNode = "part_008" THEN stripExpandPreamble(t) ELSE t

\* the step is an answer to an expand call of the call record c / of the node
Answered(c, d) == c.pc = "expand" /\ Len(d.track) = Len(c.track) + 1
AnsweredNode(g, h) ==
    g.node = "writer" /\ g.pc = "expand" /\ Len(h.track) = Len(g.track) + 1
\* the loop ends with that answer and returns the text it held
Stops(c, d) ==
    d.loopDone /\ d.returned = c.draft /\ d.pc # "expand" /\ d.expandCalls = c.expandCalls
StopsNode(g, h) ==
    h.loopDone /\ h.returned = g.finalContent /\ h.pc # "expand"
    /\ h.expandCalls = g.expandCalls

\* C7 as claimed: as soon as an expand attempt yields a candidate that is not
\* strictly longer than the current best, the loop stops, makes no further
\* model call and returns the prior best unchanged, on every path, refused
\* attempts included.
C7_LoopStopsOnEveryCandidateNotLonger ==
    [][/\ \A s \in Slots :
             (Answered(calls[s], calls'[s])
              /\ countWords(candidate(calls'[s].answer)) <= calls[s].wordCount)
                => Stops(calls[s], calls'[s])
       /\ (AnsweredNode(graph, graph')
           /\ countWords(candidateNode(graph'.answer)) <= graph.wordCount)
             => StopsNode(graph, graph')]_vars

\* C7, amended: an expand attempt that is not classified as a refusal and
\* whose candidate is not strictly longer than the current best stops the
\* loop: no further model call is made in that invocation and the prior best
\* is returned unchanged.
C7_LoopStopsOnAnswerNotLonger ==
    [][/\ \A s \in Slots :
             (Answered(calls[s], calls'[s])
              /\ ~isRefusal(calls'[s].answer)
              /\ countWords(candidate(calls'[s].answer)) <= calls[s].wordCount)
                => Stops(calls[s], calls'[s])
       /\ (AnsweredNode(graph, graph')
           /\ ~isRefusal(graph'.answer)
           /\ countWords(candidateNode(graph'.answer)) <= graph.wordCount)
             => StopsNode(graph, graph')]_vars

\* a loop stopped before its last attempt by an answer that was no refusal
\* and not longer than the text held, which is still too short
C7_Witness ==
    \E s \in Slots :
        LET c == calls[s]
        IN  /\ c.loopDone /\ c.attempts < maxAttempts /\ c.answer # << >>
            /\ ~isRefusal(c.answer)
            /\ countWords(candidate(c.answer)) <= countWords(c.returned)
            /\ countWords(c.returned) < c.minAcceptable

\* C8: while every writer attempt so far was classified as a refusal, and so
\* when all of the attempts 0..3 were, the best candidate is the salvaged
\* text with the highest word count among the attempts whose salvage
\* re-classifies as no refusal; a salvage that re-classifies as a refusal is
\* never the best candidate.
C8_BestIsHighestQualifyingSalvage ==
    \A r \in Retries :
        AllRefused(r.hist) =>
            /\ r.bestWordCount = HighestCount(r.hist)
            /\ countWords(r.bestText) = r.bestWordCount
            /\ r.bestWordCount > 0 =>
                  \E i \in Qualifying(r.hist) : r.bestText = salvage(r.hist[i])

\* the salvaged lengths 40, 80, 150, 60 and a best candidate of 150 words
C8_Witness ==
    \E s \in Slots :
        /\ calls[s].hist = <<Salvageable(40), Salvageable(80), Salvageable(150),
                            Salvageable(60)>>
        /\ calls[s].bestText = <<Prose(150)>>

\* C9: in the session and in the graph's writer node, when every writer
\* attempt was a refusal the draft handed to the expand loop is the best
\* salvaged candidate if that has at least 100 words, and empty otherwise.
C9_ShortSalvageNeverSeedsTheExpandLoop ==
    \A r \in Retries :
        (Len(r.hist) = maxRefusalRetries + 1 /\ AllRefused(r.hist)) =>
            r.given = IF r.bestWordCount >= MinSalvageWords THEN r.bestText ELSE << >>

\* C10: if the editor rejects on every cycle and maxEditCycles = M >= 1, the
\* chapter gets exactly M edit cycles, is approved by force after the M-th
\* rejection and is finalised through continuity with approved = true.
C10_ForcedApprovalAfterMaxEditCycles ==
    maxEditCycles >= 1 =>
        /\ \A c \in GeneratingCalls :
              /\ c.edits <= maxEditCycles
              /\ (c.pc \in {"summary", "continuity", "condense"} /\ c.rejects = c.edits)
                    => (c.edits = maxEditCycles /\ c.approved)
        /\ \A n \in DOMAIN chapters :
              chapters[n].approved /\ chapters[n].editCount <= maxEditCycles
        /\ graph.editCount <= maxEditCycles
        /\ (graph.node = "continuity" /\ graph.rejects = graph.editCount)
              => graph.editCount = maxEditCycles
        /\ \A i \in DOMAIN graph.chapters :
              graph.chapters[i].approved /\ graph.chapters[i].editCount <= maxEditCycles

\* two cycles, both rejected, and the chapter on its way through continuity
C10_Witness ==
    /\ maxEditCycles = 2
    /\ \E c \in GeneratingCalls :
          c.pc = "continuity" /\ c.rejects = 2 /\ c.edits = 2 /\ c.approved

(***************************************************************************)
(* The editing step and the phases of the graph                            *)
(***************************************************************************)
\* the step is the editor's answer in the graph / in the session call of slot s
EditorAnswered == graph.node = "editor" /\ graph'.editCount = graph.editCount + 1
EditAnswered(s) ==
    /\ calls[s].op = "generateChapter" /\ calls[s].pc = "edit"
    /\ calls'[s].edits = calls[s].edits + 1

\* C11: a draft leaves the editing step for continuity if and only if its
\* overall score is at least 7 or the edit-cycle count has reached the
\* configured maximum; a draft scored below 7 before the budget is exhausted
\* returns to writing, and a draft scored 7 or more is never sent back.
C11_ScoreDecidesTheRoute ==
    [][/\ EditorAnswered =>
             /\ graph'.node \in {"continuity", "writer"}
             /\ graph'.node = "continuity" <=>
                    (graph'.overall >= PassScore \/ graph'.editCount >= maxEditCycles)
       /\ \A s \in Slots : EditAnswered(s) =>
             /\ calls'[s].overall >= PassScore => calls'[s].pc # "rewrite"
             /\ (calls'[s].overall < PassScore /\ calls'[s].edits < maxEditCycles)
                   => calls'[s].pc = "rewrite"]_vars

\* a node of the graph returned and the run goes on at another node
NodeReturned == graph'.node # graph.node /\ graph'.node # "failed"

\* C12: in the graph pipeline every transition follows the state machine
\* planning -> writing -> editing -> {writing | continuity} ->
\* {planning | end}: planning is followed only by writing, writing only by
\* editing, editing by writing exactly when the result is not approved and
\* editCount < maxEditCycles and by continuity otherwise, and continuity by
\* planning when more chapters remain and by the end otherwise.
C12_PhasesFollowTheStateMachine ==
    [][NodeReturned =>
         /\ graph.node = "START" => graph'.node = "generate_outline"
         /\ graph.node = "generate_outline" =>
                graph'.node = "planner" /\ graph'.currentPhase = "planning"
         /\ graph.node = "planner" =>
                graph'.node = "writer" /\ graph'.currentPhase = "writing"
         /\ graph.node = "writer" =>
                graph'.node = "editor" /\ graph'.currentPhase = "editing"
         /\ graph.node = "editor" =>
                /\ graph'.node \in {"writer", "continuity"}
                /\ graph'.node = "writer" <=>
                       /\ graph'.currentEditResult # "approved"
                       /\ graph'.editCount < maxEditCycles
                /\ graph'.node = "writer" => graph'.currentPhase = "writing"
         /\ graph.node = "continuity" =>
                /\ graph'.node \in {"planner", "END"}
                /\ graph'.node = "planner" <=> graph'.currentChapter <= graph'.outlineLen
                /\ graph'.node = "planner" <=> graph'.currentPhase = "planning"
                /\ graph'.node = "END" <=> graph'.currentPhase = "complete"
         /\ graph.node \notin {"END", "failed"}]_vars

\* the second chapter is back at the writer after a rejection: the run has
\* gone through continuity -> planner and through editor -> writer
C12_Witness ==
    /\ graph.node = "writer" /\ Len(graph.chapters) = 1 /\ graph.currentChapter = 2
    /\ graph.currentEditResult = "rejected" /\ graph.editCount = 1
    /\ graph.editCount < maxEditCycles

(***************************************************************************)
(* Failures of model calls                                                 *)
(***************************************************************************)
\* the event e is among the events of the step
Emits(e) == \E i \in DOMAIN last'.events : last'.events[i] = e

\* after the failure in slot s the loop of generateAllRemaining is at a later
\* chapter, with every chapter between approved or failed, or it has ended
\* with every later chapter approved or failed
GoesOn(s) ==
    LET chs == calls[s].allChapters
        Settled(j) == /\ Has(chapterStatuses', heap[chs[j]].number)
                      /\ chapterStatuses'[heap[chs[j]].number] \in {"approved", "failed"}
    IN  IF calls'[s].op = "generateChapter"
        THEN /\ calls'[s].inAll /\ calls'[s].pc = "plan"
             /\ calls'[s].allIdx > calls[s].allIdx
             /\ calls'[s].target = heap[chs[calls'[s].allIdx]].number
             /\ chapterStatuses'[calls'[s].target] = "generating"
             /\ \A j \in (calls[s].allIdx + 1)..(calls'[s].allIdx - 1) : Settled(j)
        ELSE /\ calls'[s] = Idle
             /\ \A j \in (calls[s].allIdx + 1)..Len(chs) : Settled(j)

\* the chapter of the call in slot s fails, and the run goes on
FailsTheChapter(s) ==
    /\ chapterStatuses'[calls[s].target] = "failed"
    /\ Emits(ChapterFailed(calls[s].target))
    /\ chapters' = chapters
    /\ calls[s].inAll => GoesOn(s)

\* C13 as stated: whichever model call of generateChapter throws - the summary
\* and continuity calls included - the chapter becomes 'failed', chapter_failed
\* is emitted, nothing is stored and generateAllRemaining goes on.
C13_AnyThrowFailsTheChapter ==
    [][\A s \in Slots :
          (/\ calls[s].op = "generateChapter"
           /\ \/ callThrows(s) \/ summaryEnds(s, FALSE)
              \/ continuityThrows(s) \/ condenseThrows(s))
             => FailsTheChapter(s)]_vars

\* C13: when the planning, writing, expand, edit or rewrite call of
\* generateChapter throws, the chapter's status becomes 'failed', a
\* chapter_failed event is emitted, nothing is stored as the chapter's content
\* and generateAllRemaining goes on with the later chapters.
C13_GenerationThrowFailsTheChapter ==
    [][\A s \in Slots :
          (calls[s].op = "generateChapter" /\ callThrows(s)) => FailsTheChapter(s)]_vars

\* generateAllRemaining is planning chapter 2 after chapter 1 has just failed
C13_Witness ==
    \E s \in Slots :
        /\ calls[s].inAll /\ calls[s].target = 2 /\ calls[s].pc = "plan"
        /\ Has(chapterStatuses, 1) /\ chapterStatuses[1] = "failed"
        /\ ~Has(chapters, 1)
        /\ \E i \in DOMAIN last.events : last.events[i] = ChapterFailed(1)

\* the step emits no chapter_failed event
NoFailure == \A i \in DOMAIN last'.events : last'.events[i].type # "chapter_failed"

\* C14: model non-compliance is never a hard error: a step of generateChapter
\* in which the model call returns, whatever text it returns, never marks
\* the chapter 'failed' and never emits chapter_failed; the call completes,
\* and when it completes without a throw the chapter is stored with status
\* 'approved'.
C14_NonComplianceIsNeverAnError ==
    /\ [][\A s \in Slots :
             (calls[s].op = "generateChapter" /\ calls'[s] # calls[s] /\ ~callThrows(s))
                => /\ NoFailure
                   /\ chapterStatuses'[calls[s].target] # "failed"
                   /\ calls'[s].op = "idle"
                         => /\ chapterStatuses'[calls[s].target] = "approved"
                            /\ Has(chapters', calls[s].target)]_vars
    /\ \A s \in Slots : (calls[s].op = "generateChapter") ~> (calls[s].op = "idle")

\* every writer attempt, every expand attempt and the rewrite were refused:
\* the chapter is stored without content, approved
C14_Witness ==
    /\ \A s \in Slots : calls[s].op = "idle"
    /\ Has(chapters, 1) /\ chapters[1].wordCount = 0 /\ chapters[1].editCount = 1
    /\ chapterStatuses[1] = "approved"

(***************************************************************************)
(* word_count_warning                                                      *)
(***************************************************************************)
\* generateChapter of slot s stores its chapter in this step
Completes(s) ==
    /\ calls[s].op = "generateChapter"
    /\ chapterStatuses[calls[s].target] = "generating"
    /\ chapterStatuses'[calls[s].target] = "approved"
\* continuityNode appends the current chapter in this step
CompletesNode == Len(graph'.chapters) = Len(graph.chapters) + 1

\* C15: a word_count_warning event is emitted for a completed chapter if and
\* only if its final word count is below floor(target * (1 - tolerance)),
\* the minimum acceptable count of the expand loop.
C15_WarningIffBelowMinAcceptable ==
    [][/\ \A s \in Slots : Completes(s) =>
             LET chapter == chapters'[calls[s].target]
             IN  Emits(WordCountWarning(calls[s].target))
                    <=> chapter.wordCount < minAcceptableOf(heap[chapter.plan].targetWords)
       /\ CompletesNode =>
             LET chapter == graph'.chapters[Len(graph'.chapters)]
             IN  graph.warnings > 0
                    <=> chapter.wordCount < minAcceptableOf(graph.targetWords)]_vars

\* the session's half of C15 alone
C15_SessionWarningIffBelowMinAcceptable ==
    [][\A s \in Slots : Completes(s) =>
          LET chapter == chapters'[calls[s].target]
          IN  Emits(WordCountWarning(calls[s].target))
                 <=> chapter.wordCount < minAcceptableOf(heap[chapter.plan].targetWords)]_vars

\* the graph's half of C15 alone
C15_GraphWarningIffBelowMinAcceptable ==
    [][CompletesNode =>
          LET chapter == graph'.chapters[Len(graph'.chapters)]
          IN  graph.warnings > 0
                 <=> chapter.wordCount < minAcceptableOf(graph.targetWords)]_vars

(***************************************************************************)
(* Continuity                                                              *)
(***************************************************************************)
\* C16: after every continuity update, in the session and in the graph, the
\* rolling summary has at most 2,000 words, whatever the summarisation and
\* condensation calls returned and whether or not condensation failed.
C16_RollingSummaryAtMostMaxWords ==
    /\ countWords(rollingSummary) <= maxSummaryWords
    /\ countWords(graph.rollingSummary) <= maxSummaryWords

\* the graph's truncation by sentences alone keeps the bound
C16_TruncationKeepsTheBound ==
    [][continuityCondensed(FALSE, 0) =>
          countWords(graph'.rollingSummary) <= maxSummaryWords]_vars
\* the session's fallback after a failed condensation keeps the bound
C16_FailedCondensationKeepsTheBound ==
    [][\A s \in Slots : condenseThrows(s) =>
          countWords(rollingSummary') <= maxSummaryWords]_vars

\* the summarisation call of the session's continuity update threw, and the
\* chapter is stored as if it had not
SessionAbsorbs(s) ==
    /\ chapterStatuses'[calls[s].target] = "approved"
    /\ Has(chapters', calls[s].target)
    /\ chapters'[calls[s].target].content = calls[s].draft
    /\ rollingSummary' = rollingSummary
    /\ NoFailure

\* the summarisation call of continuityNode threw in this step
SummarisationThrowsInNode ==
    graph.node = "continuity" /\ graph.pc = "summary" /\ nodeThrows

\* C17: a failure of the summarisation call during a continuity update never
\* propagates: the chapter still completes and the rolling summary keeps
\* exactly its prior value, in the session and in the graph.
C17_SummarisationFailureIsAbsorbed ==
    [][/\ \A s \in Slots : continuityThrows(s) => SessionAbsorbs(s)
       /\ SummarisationThrowsInNode =>
             /\ graph'.node \in {"planner", "END"}
             /\ Len(graph'.chapters) = Len(graph.chapters) + 1
             /\ graph'.rollingSummary = graph.rollingSummary]_vars

\* the session's half of C17 alone
C17_SessionAbsorbsSummarisationFailure ==
    [][\A s \in Slots : continuityThrows(s) => SessionAbsorbs(s)]_vars

\* the chapter operation of slot s completes in this step
CompletesOp(s) ==
    /\ calls[s].op \in {"generateChapter", "rewriteChapter", "expandChapter"}
    /\ chapterStatuses[calls[s].target] = "generating"
    /\ chapterStatuses'[calls[s].target] = "approved"

\* previousChapterEnding is the ending of the chapter that slot s has stored
EndingOfStored(s) ==
    previousChapterEnding' = sliceEnd(chapters'[calls[s].target].content, EndingChars)

\* C18: when generateChapter, rewriteChapter or expandChapter completes,
\* previousChapterEnding is the trailing 2,000 characters of the content
\* stored for that chapter, with or without a continuity model and whether
\* or not the summarisation call succeeded.
C18_EndingOfTheLastCompletedChapter ==
    [][\A s \in Slots : CompletesOp(s) => EndingOfStored(s)]_vars

\* C18 for generateChapter and rewriteChapter with a continuity model
C18_EndingWithContinuityModel ==
    [][\A s \in Slots :
          (CompletesOp(s) /\ env.continuity /\ calls[s].op # "expandChapter")
             => EndingOfStored(s)]_vars
\* C18 for expandChapter with a continuity model
C18_EndingAfterExpandChapter ==
    [][\A s \in Slots :
          (CompletesOp(s) /\ env.continuity /\ calls[s].op = "expandChapter")
             => EndingOfStored(s)]_vars

(***************************************************************************)
(* TokenBudget.buildContext                                                *)
(***************************************************************************)
\* buildContext has returned; its arguments and its result
Built == last.op = "buildContext"
itemOf(key) == CHOOSE i \in DOMAIN env.items : env.items[i].key = key
Item(key) == env.items[itemOf(key)]
Elems(seq) == { seq[i] : i \in DOMAIN seq }
RECURSIVE TokensOf(_)
TokensOf(keys) ==
    IF keys = << >> THEN 0
    ELSE estimateTokens(Item(Head(keys)).content) + TokensOf(Tail(keys))
\* the whole contents of the included items, in the order of included
WholeText(included) == join([j \in DOMAIN included |-> Item(included[j]).content])

\* C19: for every item list and every budget, also one smaller than the
\* tokens of the required items, buildContext puts every required item's key
\* in included; included and dropped partition the keys of the items; and no
\* content is truncated or split.
C19_RequiredIncludedAndKeysPartitioned ==
    Built =>
        LET result == last.outcome
            included == result.includedItems
            dropped == result.droppedItems
        IN  /\ \A i \in DOMAIN env.items :
                  env.items[i].required => env.items[i].key \in Elems(included)
            /\ Elems(included) \cup Elems(dropped) = { env.items[i].key : i \in DOMAIN env.items }
            /\ Elems(included) \cap Elems(dropped) = {}
            /\ Len(included) + Len(dropped) = Len(env.items)
            /\ result.text = WholeText(included)
            /\ result.totalTokens = TokensOf(included)

\* two required items that exceed the budget are included, an optional item
\* is dropped
C19_Witness ==
    /\ Built
    /\ \E i, j \in DOMAIN env.items :
          /\ i # j /\ env.items[i].required /\ env.items[j].required
          /\ estimateTokens(env.items[i].content) + estimateTokens(env.items[j].content)
                > env.budget
          /\ {env.items[i].key, env.items[j].key} \subseteq Elems(last.outcome.includedItems)
    /\ last.outcome.droppedItems # << >>
    /\ last.outcome.totalTokens > env.budget

\* the tokens of the required items
RequiredTokens ==
    TokensOf(SelectSeq([i \in DOMAIN env.items |-> env.items[i].key],
                       LAMBDA key : Item(key).required))

\* C20: in the result of buildContext the required items precede the
\* optional items in included; the optional items are in non-increasing
\* priority order, items of equal priority in their input order; totalTokens
\* exceeds the budget only through required items; and the text is the
\* included contents in that order joined by a blank line.
C20_OrderBudgetAndText ==
    Built =>
        LET result == last.outcome
            included == result.includedItems
        IN  /\ \A j, k \in DOMAIN included :
                  (j < k /\ Item(included[k]).required) => Item(included[j]).required
            /\ \A j, k \in DOMAIN included :
                  (j < k /\ ~Item(included[j]).required /\ ~Item(included[k]).required)
                     => \/ Item(included[j]).priority > Item(included[k]).priority
                        \/ /\ Item(included[j]).priority = Item(included[k]).priority
                           /\ itemOf(included[j]) < itemOf(included[k])
            /\ RequiredTokens <= env.budget => result.totalTokens <= env.budget
            /\ result.text = WholeText(included)

\* a required item of low priority comes first, two optional items of equal
\* priority follow in input order, and the budget is used up
C20_Witness ==
    /\ Built
    /\ Len(env.items) = 3 /\ Len(last.outcome.includedItems) = 3
    /\ \E r, a, b \in DOMAIN env.items :
          /\ a < b /\ b < r
          /\ env.items[r].required /\ ~env.items[a].required /\ ~env.items[b].required
          /\ env.items[r].priority < env.items[a].priority
          /\ env.items[a].priority = env.items[b].priority
          /\ last.outcome.includedItems
                = <<env.items[r].key, env.items[a].key, env.items[b].key>>
    /\ last.outcome.totalTokens = env.budget
    /\ Len(last.outcome.text) > 4

(***************************************************************************)
(* C21  detectRefusal answers isRefusal = true only when at least two      *)
(* distinct refusal patterns match within the leading 500 characters of    *)
(* the trimmed text; a text whose head matches one pattern or none, and an *)
(* empty or whitespace-only text, is answered isRefusal = false with the   *)
(* trimmed text as cleanedText, unchanged.                                 *)
(***************************************************************************)
Detected == last.op = "detectRefusal"
\* the patterns with a match that lies in the first HeadLen characters
MatchesInHead(t) ==
    { p \in AnchoredPats \cup FreePats :
        \E i \in 1..Len(t) : /\ Offset(t, i) < HeadLen
                             /\ p \in t[i].pats
                             /\ p \in AnchoredPats => i = 1 }
C21_RefusalOnlyOnTwoPatternsInTheHead ==
    Detected =>
        LET trimmed == Trim(env.text)
            result == last.outcome
        IN  /\ result.isRefusal => Cardinality(MatchesInHead(trimmed)) >= 2
            /\ (trimmed = << >> \/ Cardinality(MatchesInHead(trimmed)) <= 1)
                  => /\ result.isRefusal = FALSE
                     /\ result.cleanedText = trimmed

\* a text that opens with an apology and refuses only after the head, with
\* whitespace around it, is not a refusal and comes back trimmed
C21_Witness ==
    /\ Detected
    /\ Cardinality(MatchesInHead(Trim(env.text))) = 1
    /\ \E i \in 1..Len(env.text) : Cardinality(env.text[i].pats) >= MinMatches
    /\ last.outcome.isRefusal = FALSE
    /\ last.outcome.cleanedText = Trim(env.text)
    /\ last.outcome.cleanedText # << >>

(***************************************************************************)
(* C22  stripRefusalContent is idempotent: applied to its own result it    *)
(* returns that result, for every text of clean, refusal, option-list and  *)
(* whitespace-only paragraphs with any blank-line spacing.                 *)
(***************************************************************************)
Scrubbed == last.op = "stripRefusalContent"
C22_ScrubIsIdempotent ==
    Scrubbed => stripRefusalContent(last.outcome) = last.outcome

\* a refusal paragraph between two paragraphs of prose, three newlines
\* apart, is dropped and the prose is joined by two
C22_Witness ==
    /\ Scrubbed
    /\ Len(env.text) = 3 /\ env.text[2] = Spaced(RefusalPara, 3) /\ env.text[3].gap = 3
    /\ env.text[1].w > 0 /\ env.text[3].w > 0
    /\ Len(last.outcome) = 2
    /\ last.outcome[2].gap = 2
    /\ last.outcome # env.text

(***************************************************************************)
(* C23  The content that generateChapter, rewriteChapter or expandChapter  *)
(* stores for a chapter, and the draft that the writer node of the graph   *)
(* hands to the editor, is a fixed point of stripRefusalContent: it holds  *)
(* no paragraph that matches two or more refusal patterns, also when the   *)
(* last expansion came after a rewrite that the editor asked for.          *)
(***************************************************************************)
IsScrubbed(t) == stripRefusalContent(t) = t
\* the writer node returns in this step
WriterHandsOver == graph.node = "writer" /\ graph'.node = "editor"
C23_StoredContentIsScrubbed ==
    [][/\ \A s \in Slots :
             CompletesOp(s) => IsScrubbed(chapters'[calls[s].target].content)
       /\ WriterHandsOver => IsScrubbed(graph'.currentDraft)]_vars
\* C23 for what generateChapter stores
C23_GenerateChapterStoresScrubbed ==
    [][\A s \in Slots :
          (CompletesOp(s) /\ calls[s].op = "generateChapter")
             => IsScrubbed(chapters'[calls[s].target].content)]_vars
\* C23 for what rewriteChapter stores
C23_RewriteChapterStoresScrubbed ==
    [][\A s \in Slots :
          (CompletesOp(s) /\ calls[s].op = "rewriteChapter")
             => IsScrubbed(chapters'[calls[s].target].content)]_vars
\* C23 for what expandChapter stores
C23_ExpandChapterStoresScrubbed ==
    [][\A s \in Slots :
          (CompletesOp(s) /\ calls[s].op = "expandChapter")
             => IsScrubbed(chapters'[calls[s].target].content)]_vars
\* C23 for the writer node of part_008
C23_WriterNodeHandsOverScrubbed ==
    [][(WriterHandsOver /\ env.writerNode = "part_008")
          => IsScrubbed(graph'.currentDraft)]_vars
\* C23 for the writer node of writer.ts
C23_OldWriterNodeHandsOverScrubbed ==
    [][(WriterHandsOver /\ env.writerNode = "writer.ts")
          => IsScrubbed(graph'.currentDraft)]_vars

(***************************************************************************)
(* C24  Every model call that returns successfully appends exactly one     *)
(* entry to the cost ledger, on every path of the session and of the       *)
(* graph, the expand attempt that is rejected as not longer, the           *)
(* chapter-summary call and the condensation call included; and no         *)
(* operation removes an entry of the ledger.                               *)
(***************************************************************************)
\* the model call that slot s awaits returns in this step
CallReturns(s) ==
    \/ \E n \in env.outlineLens, tw \in env.targets : outlineReturns(s, n, tw)
    \/ planReturns(s)
    \/ \E t \in env.writeTexts : writeReturns(s, t)
    \/ \E t \in env.expandTexts : expandReturns(s, t)
    \/ \E r \in env.verdicts : editReturns(s, r)
    \/ \E t \in env.rewriteTexts : rewriteReturns(s, t)
    \/ summaryEnds(s, TRUE)
    \/ \E t \in env.summaries : continuityReturns(s, t)
    \/ \E w \in env.condensedWords : condenseReturns(s, w)
\* the model call that the running node awaits returns in this step
NodeCallReturns ==
    \/ \E n \in env.outlineLens, tw \in env.targets : outlineNode(n, tw)
    \/ plannerNode
    \/ \E t \in env.writeTexts : writerAttempt(t)
    \/ \E t \in env.expandTexts : writerExpand(t)
    \/ writerReturns
    \/ \E r \in env.verdicts : editorNode(r)
    \/ \E t \in env.summaries : continuityNode(t)
    \/ \E w \in env.condensedWords : continuityCondensed(TRUE, w)
\* updateContinuity and continuityNode append the entry of the summarisation
\* call after the condensation call: until then the entry is owed
Owed(cs) == Cardinality({ s \in Slots : cs[s].pc = "condense" })
OwedByNode(g) == IF g.node = "continuity" /\ g.pc = "condense" THEN 1 ELSE 0
\* the entries of state.costs, with those owed; for the graph, with those
\* the running node has collected and returns
SessionLedger(n, cs) == n + Owed(cs)
GraphLedger(g) ==
    g.costs + (IF g.node = "writer" THEN g.nodeCosts ELSE 0) + OwedByNode(g)
C24_SessionChargesEveryCall ==
    [][\A s \in Slots :
          CallReturns(s) => SessionLedger(costs', calls') = SessionLedger(costs, calls) + 1]_vars
C24_GraphChargesEveryCall ==
    [][NodeCallReturns => GraphLedger(graph') = GraphLedger(graph) + 1]_vars
C24_LedgerOnlyGrows ==
    [][costs' >= costs /\ graph'.costs >= graph.costs]_vars
C24_EveryReturningCallIsCharged ==
    [][/\ \A s \in Slots :
             CallReturns(s) => SessionLedger(costs', calls') = SessionLedger(costs, calls) + 1
       /\ NodeCallReturns => GraphLedger(graph') = GraphLedger(graph) + 1
       /\ costs' >= costs /\ graph'.costs >= graph.costs]_vars
\* C24 for the calls of the graph other than the expand, chapter-summary and
\* condensation calls
C24_GraphChargesTheOtherCalls ==
    [][(/\ NodeCallReturns
        /\ ~(graph.node = "writer" /\ graph.pc \in {"expand", "summary"})
        /\ ~(graph.node = "continuity" /\ graph.pc = "condense"))
          => GraphLedger(graph') = GraphLedger(graph) + 1]_vars

(***************************************************************************)
(* C25  When the sequence of generateAllRemaining is consumed to the end,  *)
(* every chapter of the outline has status approved or failed and the      *)
(* phase is complete; each chapter that was not approved or failed is      *)
(* attempted exactly once, in outline order, and a chapter starts only     *)
(* after the one before it has completed or failed.                        *)
(***************************************************************************)
\* the sequence that runs in slot s ends in this step
AllEnds(s) ==
    /\ calls'[s] = Idle
    /\ \/ allResumes(s)
       \/ calls[s].inAll /\ callThrows(s)
       \/ outlineApproved /\ generateAllRemainingCall(s)
\* every chapter of the current outline is approved or failed
AllSettled(st) ==
    \A i \in DOMAIN outline.chapters :
        LET n == heap[outline.chapters[i]].number
        IN  Has(st, n) /\ st[n] \in {"approved", "failed"}
\* the sequence that runs in slot s starts a chapter in this step
AllStarts(s) ==
    /\ calls'[s].inAll /\ calls'[s].pc = "plan"
    /\ calls[s].pc # "plan" \/ calls'[s].allIdx # calls[s].allIdx
\* the chapter was not settled, it comes later in the outline than the one
\* before it, and that one has completed or failed
InTurn(s) ==
    /\ ~(/\ Has(chapterStatuses, calls'[s].target)
          /\ chapterStatuses[calls'[s].target] \in {"approved", "failed"})
    /\ calls'[s].allIdx > calls[s].allIdx
    /\ calls[s].inAll =>
          /\ Has(chapterStatuses', calls[s].target)
          /\ chapterStatuses'[calls[s].target] \in {"approved", "failed"}
C25_EndOfSequenceSettlesEveryChapter ==
    [][\A s \in Slots :
          /\ AllEnds(s) => AllSettled(chapterStatuses)' /\ phase' = "complete"
          /\ AllStarts(s) => InTurn(s)]_vars
\* C25 for the end of the sequence alone
C25_EndSettlesEveryChapter ==
    [][\A s \in Slots :
          AllEnds(s) => AllSettled(chapterStatuses)' /\ phase' = "complete"]_vars
\* C25 for the end of the sequence after the consumer took a result
C25_EndAfterAResult ==
    [][\A s \in Slots :
          (AllEnds(s) /\ calls[s].pc = "yielded" /\ Len(calls[s].allChapters) > 1)
             => AllSettled(chapterStatuses)' /\ phase' = "complete"]_vars
\* C25 for the order of the attempts alone
C25_ChaptersAttemptedInTurn ==
    [][\A s \in Slots : AllStarts(s) => InTurn(s)]_vars
\* C25 for a caller that does nothing else while it consumes the sequence
C25_UndisturbedSequenceSettlesEveryChapter ==
    [][\A s \in Slots :
          /\ AllEnds(s) => AllSettled(chapterStatuses)' /\ phase' = "complete"
          /\ AllStarts(s) => InTurn(s)]_vars

(***************************************************************************)
(* C26  save followed by restore with the same storage object is a round   *)
(* trip: the restored session has the id, outline, approval flag, chapter  *)
(* contents, chapter statuses, rolling summary, previous-chapter ending,   *)
(* cost entries and phase that were saved, for every state the session can *)
(* be saved in; restoring an id that was never saved fails with 'not       *)
(* found'.                                                                 *)
(***************************************************************************)
\* the state of the session by value: chapter plans and chapter contents
\* without the objects that hold them
StateValue ==
    [id |-> SessionId,
     outline |-> IF outline.present
                 THEN [i \in DOMAIN outline.chapters |-> heap[outline.chapters[i]]]
                 ELSE <<"null">>,
     outlineApproved |-> outlineApproved,
     chapters |-> [k \in DOMAIN chapters |->
                     <<chapters[k].content, chapters[k].wordCount, chapters[k].summary,
                       chapters[k].editCount, chapters[k].approved>>],
     chapterStatuses |-> chapterStatuses,
     rollingSummary |-> rollingSummary,
     previousChapterEnding |-> previousChapterEnding,
     costs |-> costs,
     phase |-> phase]
\* the value under key k of a list of [key, value] pairs
ValueAt(pairs, k) == pairs[CHOOSE i \in DOMAIN pairs : pairs[i][1] = k][2]
\* the state that a saved string describes
SavedValue(json) ==
    [id |-> json.id,
     outline |-> IF json.outline.isNull THEN <<"null">> ELSE json.outline.chapters,
     outlineApproved |-> json.outlineApproved,
     chapters |-> [k \in { json.chapters[i][1] : i \in DOMAIN json.chapters } |->
                     LET c == ValueAt(json.chapters, k)
                     IN  <<c.content, c.wordCount, c.summary, c.editCount, c.approved>>],
     chapterStatuses |-> [k \in { json.chapterStatuses[i][1] :
                                    i \in DOMAIN json.chapterStatuses } |->
                            ValueAt(json.chapterStatuses, k)],
     rollingSummary |-> json.rollingSummary,
     previousChapterEnding |-> json.previousChapterEnding,
     costs |-> json.costs,
     phase |-> json.phase]
\* the store holds a string for the session, and it describes the state the
\* session is in
HoldsThisState(store) ==
    Has(store, SessionId) /\ SavedValue(store[SessionId]) = StateValue
C26_SaveThenRestoreIsARoundTrip ==
    [][/\ save(TRUE) => HoldsThisState(storage.given)'
       /\ (Has(storage.given, SessionId) /\ restore(SessionId, TRUE))
             => /\ last'.outcome = "session"
                /\ StateValue' = SavedValue(storage.given[SessionId])
       /\ \A id \in Ids :
             (restore(id, TRUE) /\ ~Has(storage.given, id))
                => /\ last'.outcome = "not found"
                   /\ UNCHANGED sessionVars]_vars

\* a session with a stored chapter is saved to the caller's storage object
\* and restored from it
C26_Witness ==
    /\ last.op = "restore" /\ last.outcome = "session"
    /\ HoldsThisState(storage.given)
    /\ outlineApproved
    /\ DOMAIN chapters # {}
    /\ rollingSummary # << >>
    /\ costs > 0

(***************************************************************************)
(* C27  A session saved with save() without a storage argument can         *)
(* afterwards be restored with BookSession.restore(id, config) without a   *)
(* storage argument, and the restored session has the saved progress.      *)
(***************************************************************************)
C27_RestoreWithoutStorageFindsTheSession ==
    [][/\ save(FALSE) => HoldsThisState(storage.own)'
       /\ (Has(storage.own, SessionId) /\ restore(SessionId, FALSE))
             => /\ last'.outcome = "session"
                /\ StateValue' = SavedValue(storage.own[SessionId])]_vars
\* C27 for save alone: the session's own storage holds the state
C27_SaveWithoutStorageKeepsTheState ==
    [][save(FALSE) => HoldsThisState(storage.own)']_vars

(***************************************************************************)
(* C28  export() returns exactly the chapters of the current outline whose *)
(* status is approved, in outline order, and totalWords is the sum of      *)
(* their word counts; a chapter that is pending, generating or failed      *)
(* never appears.                                                          *)
(***************************************************************************)
Exported == last.op = "export" /\ outline.present
\* the numbers of the outline's chapters with status approved, from chapter i on
RECURSIVE ApprovedFrom(_)
ApprovedFrom(i) ==
    IF i > Len(outline.chapters) THEN << >>
    ELSE LET n == heap[outline.chapters[i]].number
         IN  IF Has(chapterStatuses, n) /\ chapterStatuses[n] = "approved"
             THEN <<n>> \o ApprovedFrom(i + 1)
             ELSE ApprovedFrom(i + 1)
RECURSIVE TotalOf(_)
TotalOf(numbers) ==
    IF numbers = << >> THEN 0
    ELSE chapters[Head(numbers)].wordCount + TotalOf(Tail(numbers))
C28_ExportIsTheApprovedChapters ==
    Exported =>
        LET book == last.outcome
        IN  /\ [i \in DOMAIN book.chapters |-> book.chapters[i].number] = ApprovedFrom(1)
            /\ \A i \in DOMAIN book.chapters :
                  book.chapters[i].content = chapters[book.chapters[i].number].content
            /\ book.totalWords = TotalOf(ApprovedFrom(1))
\* C28 while no chapter that has content is being generated or has failed
C28_ExportOfSettledChapters ==
    (Exported /\ \A n \in DOMAIN chapters :
                    Has(chapterStatuses, n) => chapterStatuses[n] = "approved")
       => LET book == last.outcome
          IN  /\ [i \in DOMAIN book.chapters |-> book.chapters[i].number] = ApprovedFrom(1)
              /\ book.totalWords = TotalOf(ApprovedFrom(1))
\* C28 for failed chapters alone
C28_FailedChapterNeverExported ==
    Exported =>
        \A i \in DOMAIN last.outcome.chapters :
            chapterStatuses[last.outcome.chapters[i].number] # "failed"

(***************************************************************************)
(* C29  Whenever the expand loop starts an attempt while the current draft *)
(* has fewer than 50 words (the empty draft in particular), that attempt   *)
(* generates the chapter afresh from the writer prompt and the plan, and   *)
(* does not use the expand prompt: in generateChapter, rewriteChapter,     *)
(* expandChapter and the writer node of the graph.                         *)
(***************************************************************************)
\* the expand loop of slot s starts an attempt in this step
StartsAttempt(s) ==
    /\ calls'[s].pc = "expand"
    /\ calls'[s].expandCalls = calls[s].expandCalls + 1
\* the expand loop of the writer node starts an attempt in this step
NodeStartsAttempt ==
    /\ graph'.node = "writer" /\ graph'.pc = "expand"
    /\ graph'.expandCalls = graph.expandCalls + 1
C29_ShortDraftIsGeneratedAfresh ==
    [][/\ \A s \in Slots :
             (StartsAttempt(s) /\ calls'[s].wordCount < FreshBelow) => calls'[s].fresh
       /\ (NodeStartsAttempt /\ graph'.wordCount < FreshBelow) => graph'.fresh]_vars
\* C29 for generateChapter alone
C29_GenerateChapterGeneratesAfresh ==
    [][\A s \in Slots :
          (/\ StartsAttempt(s) /\ calls'[s].wordCount < FreshBelow
           /\ calls'[s].op = "generateChapter") => calls'[s].fresh]_vars
\* C29 for rewriteChapter alone
C29_RewriteChapterGeneratesAfresh ==
    [][\A s \in Slots :
          (/\ StartsAttempt(s) /\ calls'[s].wordCount < FreshBelow
           /\ calls'[s].op = "rewriteChapter") => calls'[s].fresh]_vars
\* C29 for expandChapter alone
C29_ExpandChapterGeneratesAfresh ==
    [][\A s \in Slots :
          (/\ StartsAttempt(s) /\ calls'[s].wordCount < FreshBelow
           /\ calls'[s].op = "expandChapter") => calls'[s].fresh]_vars
\* C29 for the writer node of part_008 alone
C29_WriterNodeGeneratesAfresh ==
    [][(/\ NodeStartsAttempt /\ graph'.wordCount < FreshBelow
        /\ env.writerNode = "part_008") => graph'.fresh]_vars
\* C29 for the writer node of writer.ts alone
C29_OldWriterNodeGeneratesAfresh ==
    [][(/\ NodeStartsAttempt /\ graph'.wordCount < FreshBelow
        /\ env.writerNode = "writer.ts") => graph'.fresh]_vars

(***************************************************************************)
(* C30  With human review disabled and every model call succeeding, a run  *)
(* of the graph over an outline of N chapters always terminates, visits    *)
(* the chapters in the order 1, 2, ..., N, and ends with a chapters list   *)
(* that has exactly one entry per chapter number 1..N in increasing order, *)
(* each with approved = true; the edit count is reset to 0 when the        *)
(* planning of each chapter starts.                                        *)
(***************************************************************************)
\* the completed chapters are 1, 2, ... in this order, each approved
InOrder(chs) ==
    \A i \in 1..Len(chs) : chs[i].number = i /\ chs[i].approved
\* the run has ended
Ended == graph.node = "END"
\* plannerNode returns in this step
PlanningStarts == graph.node = "planner" /\ graph'.node = "writer"
C31_NoOptionalItemPastADroppedOne ==
    Built =>
        LET included == last.outcome.includedItems
            dropped == last.outcome.droppedItems
        IN  \A j \in DOMAIN included, k \in DOMAIN dropped :
                ~Item(included[j]).required =>
                    Item(included[j]).priority >= Item(dropped[k]).priority
\* C31 for item lists in which every optional item has the same number of
\* tokens: an item that follows a dropped one does not fit either
C31_EqualSizesStopAtTheFirstDrop ==
    (Built /\ \A i, j \in DOMAIN env.items :
                  (~env.items[i].required /\ ~env.items[j].required) =>
                      estimateTokens(env.items[i].content)
                          = estimateTokens(env.items[j].content)) =>
        LET included == last.outcome.includedItems
            dropped == last.outcome.droppedItems
        IN  \A j \in DOMAIN included, k \in DOMAIN dropped :
                ~Item(included[j]).required =>
                    Item(included[j]).priority >= Item(dropped[k]).priority

(***************************************************************************)
(* C32  The session pipeline (generateChapter) and the graph pipeline      *)
(* implement the same state machine: for the same maxEditCycles and the    *)
(* same sequence of editor verdicts they make the same number of editor    *)
(* calls and the same number of rewrites, and they finalise the same       *)
(* draft.                                                                  *)
(***************************************************************************)
\* both pipelines have completed chapter 1
BothDone == 1 \in DOMAIN chapters /\ Len(graph.chapters) >= 1
\* the number of rewrites behind a finalised draft: Draft(k + 1) is the
\* answer of the k-th rewrite
Rewrites(content) == CHOOSE k \in 0..(MaxEditCycles + 1) : content = Draft(k + 1)
C32_PipelinesAgree ==
    BothDone =>
        /\ chapters[1].editCount = graph.chapters[1].editCount
        /\ Rewrites(chapters[1].content) = Rewrites(graph.chapters[1].content)
        /\ chapters[1].content = graph.chapters[1].content
\* the editor approves within the first maxEditCycles calls
ApprovedInTime == \E k \in 1..maxEditCycles : env.script[k].approved
\* C32 for the runs in which the editor approves within the edit budget
C32_PipelinesAgreeWhenApprovedInTime ==
    (BothDone /\ ApprovedInTime) =>
        /\ chapters[1].editCount = graph.chapters[1].editCount
        /\ chapters[1].content = graph.chapters[1].content
\* C32 for the editor calls alone, when maxEditCycles is not 0
C32_SameEditorCallsWithABudget ==
    (BothDone /\ maxEditCycles > 0) =>
        chapters[1].editCount = graph.chapters[1].editCount
\* without an approval in time the session makes one rewrite more than the
\* graph and finalises it
C32_SessionRewritesOnceMore ==
    (BothDone /\ ~ApprovedInTime /\ maxEditCycles > 0) =>
        Rewrites(chapters[1].content) = Rewrites(graph.chapters[1].content) + 1

(***************************************************************************)
(* C33  The text that generateChapter stores as the content of a chapter   *)
(* is a draft that the editor scored in the last edit cycle of the         *)
(* chapter, or a draft that was never rejected: no rewrite made after the  *)
(* last edit cycle is stored as approved content without a score.          *)
(***************************************************************************)
\* the draft of call c is the one the last editor call scored and approved
\* (every editor call but the last one rejected), or no editor call
\* rejected a draft of this chapter
ScoredOrNeverRejected(c) == c.edits = c.rejects + 1 \/ c.rejects = 0
C33_StoredDraftWasScored ==
    [][\A s \in Slots : Completes(s) => ScoredOrNeverRejected(calls[s])]_vars
\* C33 for the chapters whose last editor call approved
C33_ApprovedDraftIsTheStoredOne ==
    [][\A s \in Slots :
          (Completes(s) /\ calls[s].edits > calls[s].rejects) =>
              /\ calls[s].edits = calls[s].rejects + 1
              /\ chapters'[calls[s].target].content = calls[s].draft]_vars

(***************************************************************************)
(* C34  In the graph with human review, when the reviewer rejects a        *)
(* chapter the chapter number is not advanced, the chapter is not appended *)
(* to the completed chapters, and the next run of the writer for that      *)
(* chapter gets the reviewer's edit instructions as its rewrite            *)
(* instructions (currentEditResult is still the rejecting result when the  *)
(* writer runs).                                                           *)
(***************************************************************************)
\* the reviewer rejects in this step
HumanRejects ==
    /\ graph.node = "continuity" /\ graph.pc = "review"
    /\ graph'.humanFeedback = "rejected" /\ graph'.reviews = graph.reviews + 1
\* the writer starts its first run after a rejection of the reviewer:
\* chapterRouter has sent the run to the planner, the only way to the writer
WriterRunsAfterReview ==
    /\ graph.humanFeedback = "rejected" /\ graph.node = "planner"
    /\ graph'.node = "writer"
C34_HumanRejectionReachesTheWriter ==
    [][/\ HumanRejects => /\ graph'.currentChapter = graph.currentChapter
                          /\ graph'.chapters = graph.chapters
       /\ WriterRunsAfterReview => /\ graph'.currentEditResult = "human"
                                   /\ graph'.editInstructions = "human"]_vars
\* C34 for the chapter alone: it stays the current one and is not appended
C34_RejectedChapterStaysCurrent ==
    [][HumanRejects => /\ graph'.currentChapter = graph.currentChapter
                       /\ graph'.chapters = graph.chapters
                       /\ graph'.currentEditResult = "human"]_vars
\* the writer that runs after a rejection of the reviewer gets no
\* instructions
C34_WriterGetsNoInstructions ==
    [][WriterRunsAfterReview => /\ graph'.currentEditResult = "null"
                                /\ graph'.editInstructions = "none"]_vars

(***************************************************************************)
(* C35  LongFormAI.generate yields each progress event that the nodes of   *)
(* the pipeline produce exactly once to its consumer, in the order the     *)
(* events were produced; an event yielded for one streamed state is never  *)
(* yielded again for a later state.                                        *)
(***************************************************************************)
\* pendingEvents is append-only: it is the events produced so far, in the
\* order of their production
C35_EveryEventYieldedOnceInOrder == graph.yielded = graph.pendingEvents
\* C35 for the first streamed state that carries events
C35_FirstStateYieldsItsEvents ==
    Len(graph.pendingEvents) = 1 => graph.yielded = graph.pendingEvents
\* every event produced has been yielded, and the events a state adds are
\* the last ones yielded for it
C35_EveryEventIsYielded ==
    /\ \A i \in DOMAIN graph.pendingEvents :
          \E j \in DOMAIN graph.yielded : graph.yielded[j] = graph.pendingEvents[i]
    /\ Len(graph.yielded) >= Len(graph.pendingEvents)
    /\ SubSeq(graph.yielded, Len(graph.yielded) - Len(graph.pendingEvents) + 1,
              Len(graph.yielded)) = graph.pendingEvents

(***************************************************************************)
(* C36  Each failed chapter generation delivers exactly one chapter_failed *)
(* event for that chapter to the listeners, whether the chapter was        *)
(* started by a direct generateChapter call or from inside                 *)
(* generateAllRemaining.                                                   *)
(***************************************************************************)
\* how many of the events emitted in a step are e
CountOf(events, e) == Cardinality({ i \in DOMAIN events : events[i] = e })
\* the generation of the chapter of slot s fails in this step
GenerationFails(s) == calls[s].op = "generateChapter" /\ callThrows(s)
C36_OneChapterFailedPerFailure ==
    [][\A s \in Slots :
          GenerationFails(s) =>
              CountOf(last'.events, ChapterFailed(calls[s].target)) = 1]_vars
\* C36 for a direct call of generateChapter
C36_DirectCallEmitsOne ==
    [][\A s \in Slots :
          (GenerationFails(s) /\ ~calls[s].inAll) =>
              last'.events = <<ChapterFailed(calls[s].target)>>]_vars
\* inside generateAllRemaining the catch block of generateChapter and the
\* one of the loop each emit the event
C36_SequenceEmitsTwo ==
    [][\A s \in Slots :
          (GenerationFails(s) /\ calls[s].inAll) =>
              CountOf(last'.events, ChapterFailed(calls[s].target)) = 2]_vars

(***************************************************************************)
(* C37  No chapter is left in status 'generating' once the operation that  *)
(* set it has finished: after generateChapter, rewriteChapter or           *)
(* expandChapter returns or throws (also when a model call inside it       *)
(* fails), the status of the chapter it worked on is 'approved' or         *)
(* 'failed'.                                                               *)
(***************************************************************************)
\* the chapter operation of slot s, called by the caller itself, returns or
\* throws in this step
Finishes(s) ==
    /\ calls[s].op \in {"generateChapter", "rewriteChapter", "expandChapter"}
    /\ ~calls[s].inAll
    /\ calls'[s] = Idle
\* the status of the chapter of slot s after the step
Settled(s) == chapterStatuses'[calls[s].target] \in {"approved", "failed"}
C37_NoChapterLeftGenerating ==
    [][\A s \in Slots : Finishes(s) => Settled(s)]_vars
\* C37 for generateChapter and rewriteChapter, which catch
C37_CatchingOperationsSettle ==
    [][\A s \in Slots :
          (Finishes(s) /\ calls[s].op # "expandChapter") => Settled(s)]_vars
\* C37 for an expandChapter that returns
C37_ExpandChapterSettlesWhenItReturns ==
    [][\A s \in Slots :
          (Finishes(s) /\ calls[s].op = "expandChapter" /\ ~callThrows(s))
              => Settled(s)]_vars
\* an expandChapter that throws leaves every status as it is
C37_FailedExpandChapterSetsNoStatus ==
    [][\A s \in Slots :
          (Finishes(s) /\ calls[s].op = "expandChapter" /\ callThrows(s))
              => chapterStatuses' = chapterStatuses]_vars

(***************************************************************************)
(* C38  In every reachable state of a session getProgress reports          *)
(* chaptersCompleted <= totalChapters and estimatedRemainingCost >= 0, and *)
(* a chapter number has stored content exactly when its status is          *)
(* 'approved': also after updateOutline removes or merges chapters, after  *)
(* regenerateOutline replaces the outline, and after a rewrite of an       *)
(* approved chapter fails.  Stated for the states in which no call of the  *)
(* session is in flight.                                                   *)
(***************************************************************************)
\* no call of the session is in flight
AtRest == \A s \in Slots : calls[s] = Idle
\* content is stored under n exactly when the status of n is 'approved'
ContentIffApproved ==
    \A n \in Numbers : Has(chapters, n) <=> getChapterStatus(n) = "approved"
C38_ProgressIsConsistent ==
    AtRest => /\ getProgress.chaptersCompleted <= getProgress.totalChapters
              /\ getProgress.estimatedRemainingCost >= 0
              /\ ContentIffApproved
\* C38 for the counts alone
C38_CompletedWithinTotal ==
    AtRest => /\ getProgress.chaptersCompleted <= getProgress.totalChapters
              /\ getProgress.estimatedRemainingCost >= 0
\* C38 for content and status alone
C38_ContentIffApproved == AtRest => ContentIffApproved
\* a status is 'approved' only for a number that has content
C38_ApprovedHasContent ==
    \A n \in Numbers : getChapterStatus(n) = "approved" => Has(chapters, n)

(***************************************************************************)
(* C39  Generated content stays attached to the chapter it was generated   *)
(* for across outline edits: after updateOutline removes, adds, merges or  *)
(* reorders chapters and renumbers the rest, the content and the           *)
(* 'approved' status found under a chapter number belong to the chapter    *)
(* plan that now carries that number, and a chapter that was never         *)
(* generated is never reported as 'approved'.                              *)
(***************************************************************************)
\* the chapter plan at place i of the outline is reported 'approved' and
\* content is found under its number
ReportedApproved(i) ==
    LET n == heap[outline.chapters[i]].number
    IN  Has(chapters, n) /\ getChapterStatus(n) = "approved"
\* the content found under the number of the plan at place i was generated
\* for that plan
OwnContent(i) ==
    getChapter(heap[outline.chapters[i]].number).plan = outline.chapters[i]
C39_ContentFollowsItsChapter ==
    \A i \in DOMAIN outline.chapters : ReportedApproved(i) => OwnContent(i)
\* C39 for an updateOutline that is called while no call is in flight and
\* the contents are attached to their chapters
C39_UpdateOutlineAtRestKeepsAttachment ==
    [][(AtRest /\ C39_ContentFollowsItsChapter /\ outline'.chapters # outline.chapters)
          => C39_ContentFollowsItsChapter']_vars
\* updateOutline never moves a content: what is stored stays under the
\* number it was stored under
C39_UpdateOutlineKeepsContentsInPlace ==
    [][outline'.chapters # outline.chapters /\ AtRest => chapters' = chapters]_vars

(***************************************************************************)
(* C40  The phase of the session is 'complete' only in states where every  *)
(* chapter of the current outline has status 'approved' or 'failed'; in    *)
(* particular generateChapter never sets the phase to 'complete' while     *)
(* some chapter of the current outline is still 'pending', whatever        *)
(* outline edits and explicit chapter numbers preceded it.                 *)
(***************************************************************************)
\* every chapter of the current outline is 'approved' or 'failed'
EveryChapterSettled ==
    \A i \in DOMAIN outline.chapters :
        getChapterStatus(heap[outline.chapters[i]].number) \in {"approved", "failed"}
C40_CompleteOnlyWhenEveryChapterSettled ==
    phase = "complete" => EveryChapterSettled
\* C40 for the steps that set the phase to 'complete'
C40_SetCompleteOnlyWhenEveryChapterSettled ==
    [][(phase # "complete" /\ phase' = "complete") => EveryChapterSettled']_vars

====
